---- MODULE Spec2Model ----
(***************************************************************************)
(* Model of the Zoho CRM MCP server: the client/session layer              *)
(* (services/zoho-client.ts: the module-level config, refreshAccessToken,  *)
(* zohoRequest, the response formatters) run by several concurrent tool    *)
(* handlers on one event loop, and the SSE transport of index.ts (the      *)
(* sessions map, GET /sse, POST /messages).  One action is one run of the  *)
(* code between two awaits.                                                *)
(***************************************************************************)
EXTENDS Integers, Sequences, FiniteSets, TLC

\* ------------------------------------------------------------------ bounds

\* Number of concurrent callers (tool invocations in flight).
NumTasks == 2

\* const CHARACTER_LIMIT = 100000;
CHARACTER_LIMIT == 100000

Tasks == 1..NumTasks

\* Number of updateConfig calls.
MaxUpdates == 2

\* Number of SSE connections (GET /sse) and of POST /messages requests.
NumConns == 2
NumPosts == 2

Conns == 1..NumConns
Posts == 1..NumPosts

\* ------------------------------------------------------------------ values

\* A JavaScript `undefined`: an unset environment variable, a JSON field
\* that the response does not have.
Absent == "<undefined>"

\* JavaScript truthiness of a string-or-undefined value (`!x`, `if (x)`, `x || d`).
Falsy(v) == v \in {Absent, ""}

Truthy(v) == ~Falsy(v)

\* `v || d`
OrDefault(v, d) == IF Falsy(v) THEN d ELSE v

US_API == "https://www.zohoapis.com"
EU_API == "https://www.zohoapis.eu"
IN_API == "https://www.zohoapis.in"
US_ACCOUNTS == "https://accounts.zoho.com"

\* ------------------------------------------------------------------- text

\* A JavaScript string that the code reads character by character (a response
\* body, a JSON text) is a sequence of runs [c, n]: the character c, n times,
\* no two neighbouring runs of the same character.  A run keeps a text of
\* 100,000 characters small.
EndOfText == "<end>"

\* F(a), with a evaluated once however often F uses its argument.
With(a, F(_)) == CHOOSE r \in { F(once) : once \in {a} } : TRUE

\* n times the character c.
Rep(c, n) == IF n = 0 THEN << >> ELSE << [c |-> c, n |-> n] >>

\* The runs of a followed by those of b, the two runs that meet made one
\* when they are of the same character.
JoinRuns(a, b) ==
    IF a = << >> THEN b
    ELSE IF b = << >> THEN a
    ELSE IF a[Len(a)].c = b[1].c
         THEN SubSeq(a, 1, Len(a) - 1)
              \o << [c |-> b[1].c, n |-> a[Len(a)].n + b[1].n] >>
              \o Tail(b)
         ELSE a \o b

\* a + b
Cat(a, b) == With(a, LAMBDA x : With(b, LAMBDA y : JoinRuns(x, y)))

\* The text with the characters chars, a tuple of one-character strings: a
\* run starts at each character that differs from the one before it.
Txt(chars) ==
    LET starts == { i \in DOMAIN chars : i = 1 \/ chars[i] # chars[i - 1] }
        upto(i) == Cardinality({ j \in starts : j <= i })
        start(k) == CHOOSE i \in starts : upto(i) = k
        end(k) == IF k = Cardinality(starts) THEN Len(chars) + 1 ELSE start(k + 1)
    IN  [k \in 1..Cardinality(starts) |-> [c |-> chars[start(k)], n |-> end(k) - start(k)]]

RECURSIVE Length(_)
\* text.length
Length(s) == IF s = << >> THEN 0 ELSE s[1].n + Length(Tail(s))

RECURSIVE Take(_, _)
\* text.substring(0, k)
Take(s, k) ==
    IF s = << >> \/ k <= 0 THEN << >>
    ELSE IF s[1].n >= k THEN Rep(s[1].c, k)
         ELSE << s[1] >> \o Take(Tail(s), k - s[1].n)

\* The first character of s.
Peek(s) == IF s = << >> THEN EndOfText ELSE s[1].c

\* s without its first character.
Rest(s) ==
    With(s, LAMBDA x :
        IF x[1].n > 1 THEN << [c |-> x[1].c, n |-> x[1].n - 1] >> \o Tail(x) ELSE Tail(x))

RECURSIVE StartsWith(_, _)
\* text.startsWith(chars)
StartsWith(s, chars) ==
    \/ chars = << >>
    \/ Peek(s) = chars[1] /\ StartsWith(Rest(s), Tail(chars))

RECURSIVE Skip(_, _)
\* s without its first k characters.
Skip(s, k) == IF k = 0 THEN s ELSE Skip(Rest(s), k - 1)

\* ------------------------------------------------------------------- JSON

\* A JSON value: null, a boolean, a non-negative integer, a string (a text),
\* an array (a sequence of values) or an object (a sequence of <<key, value>>
\* in insertion order).
JNull == [t |-> "null", v |-> 0]
JBool(b) == [t |-> "boolean", v |-> b]
JNum(i) == [t |-> "number", v |-> i]
JStr(s) == [t |-> "string", v |-> s]
JArr(vs) == [t |-> "array", v |-> vs]
JObj(ms) == [t |-> "object", v |-> ms]

Digits == << "0", "1", "2", "3", "4", "5", "6", "7", "8", "9" >>

IsDigit(c) == \E i \in 1..10 : Digits[i] = c

DigitValue(c) == (CHOOSE i \in 1..10 : Digits[i] = c) - 1

\* A parse that failed (JSON.parse throws a SyntaxError).
NoParse == [ok |-> FALSE, value |-> JNull, rest |-> << >>]

Parsed(v, s) == [ok |-> TRUE, value |-> v, rest |-> s]

RECURSIVE SkipSpace(_)
\* s without its leading white space.
SkipSpace(s) ==
    With(s, LAMBDA x : IF Peek(x) \in {" ", "\n"} THEN SkipSpace(Tail(x)) ELSE x)

RECURSIVE ParseDigits(_, _)
\* The digits after the first one of a number whose value so far is acc.
ParseDigits(s, acc) ==
    With(s, LAMBDA x :
        IF IsDigit(Peek(x))
        THEN ParseDigits(Rest(x), 10 * acc + DigitValue(Peek(x)))
        ELSE Parsed(JNum(acc), x))

\* A number: 0, or a digit other than 0 followed by digits.
ParseNumber(s) ==
    IF Peek(s) = "0" THEN Parsed(JNum(0), Rest(s))
    ELSE ParseDigits(Rest(s), DigitValue(Peek(s)))

\* The position of the first run of s whose character is in cs, Len(s) + 1
\* when there is none.
FirstOf(s, cs) ==
    IF \E i \in DOMAIN s : s[i].c \in cs
    THEN CHOOSE i \in DOMAIN s : s[i].c \in cs /\ \A j \in 1..(i - 1) : s[j].c \notin cs
    ELSE Len(s) + 1

\* The character that the escape \c stands for: \", \\ and \n are the
\* escapes read.
Unescaped(c) == IF c = "n" THEN "\n" ELSE c

RECURSIVE ParseChars(_, _)
\* The characters of a string after its opening quote, acc read so far, up to
\* the closing quote.  A line break inside a string is an error.
ParseChars(s, acc) ==
    With(s, LAMBDA x : With(FirstOf(x, {"\"", "\\", "\n"}), LAMBDA i :
    With(Cat(acc, SubSeq(x, 1, i - 1)), LAMBDA read :
    With(SubSeq(x, i, Len(x)), LAMBDA at :
        CASE Peek(at) = "\"" -> Parsed(JStr(read), Rest(at))
          [] Peek(at) = "\\" ->
                IF Peek(Rest(at)) \in {"\"", "\\", "n"}
                THEN ParseChars(Rest(Rest(at)), Cat(read, Rep(Unescaped(Peek(Rest(at))), 1)))
                ELSE NoParse
          [] OTHER -> NoParse))))

\* The member k: v added to the members ms: a key that is there already keeps
\* its place and takes the new value.
PutMember(ms, k, v) ==
    IF \E i \in DOMAIN ms : ms[i][1] = k
    THEN [i \in DOMAIN ms |-> IF ms[i][1] = k THEN << k, v >> ELSE ms[i]]
    ELSE Append(ms, << k, v >>)

RECURSIVE ParseValue(_)
RECURSIVE ParseElements(_, _)
RECURSIVE ParseMembers(_, _)

\* The elements of an array after `[` or `,`, acc read so far.
ParseElements(s, acc) ==
    With(ParseValue(SkipSpace(s)), LAMBDA e :
        IF ~e.ok THEN NoParse
        ELSE With(SkipSpace(e.rest), LAMBDA after :
            CASE Peek(after) = "," -> ParseElements(Rest(after), Append(acc, e.value))
              [] Peek(after) = "]" -> Parsed(JArr(Append(acc, e.value)), Rest(after))
              [] OTHER -> NoParse))

\* The members of an object after `{` or `,`, acc read so far.
ParseMembers(s, acc) ==
    With(SkipSpace(s), LAMBDA at :
    With(IF Peek(at) = "\"" THEN ParseChars(Rest(at), << >>) ELSE NoParse, LAMBDA k :
    With(SkipSpace(k.rest), LAMBDA colon :
    With(IF k.ok /\ Peek(colon) = ":" THEN ParseValue(SkipSpace(Rest(colon))) ELSE NoParse,
         LAMBDA e :
        IF ~e.ok THEN NoParse
        ELSE With(SkipSpace(e.rest), LAMBDA after :
            CASE Peek(after) = "," ->
                    ParseMembers(Rest(after), PutMember(acc, k.value.v, e.value))
              [] Peek(after) = "}" ->
                    Parsed(JObj(PutMember(acc, k.value.v, e.value)), Rest(after))
              [] OTHER -> NoParse)))))

\* The value that s starts with.
ParseValue(s0) ==
    With(s0, LAMBDA s :
    CASE Peek(s) = "{" ->
            IF Peek(SkipSpace(Rest(s))) = "}"
            THEN Parsed(JObj(<< >>), Rest(SkipSpace(Rest(s))))
            ELSE ParseMembers(Rest(s), << >>)
      [] Peek(s) = "[" ->
            IF Peek(SkipSpace(Rest(s))) = "]"
            THEN Parsed(JArr(<< >>), Rest(SkipSpace(Rest(s))))
            ELSE ParseElements(Rest(s), << >>)
      [] Peek(s) = "\"" -> ParseChars(Rest(s), << >>)
      [] IsDigit(Peek(s)) -> ParseNumber(s)
      [] StartsWith(s, << "n", "u", "l", "l" >>) -> Parsed(JNull, Skip(s, 4))
      [] StartsWith(s, << "t", "r", "u", "e" >>) -> Parsed(JBool(TRUE), Skip(s, 4))
      [] StartsWith(s, << "f", "a", "l", "s", "e" >>) -> Parsed(JBool(FALSE), Skip(s, 5))
      [] OTHER -> NoParse)

\* JSON.parse(text): one value with white space around it, or a failure.
JSONparse(text) ==
    With(ParseValue(SkipSpace(text)), LAMBDA r :
        IF r.ok /\ SkipSpace(r.rest) = << >> THEN Parsed(r.value, << >>) ELSE NoParse)

RECURSIVE NumberText(_)
\* String(i) of a non-negative integer.
NumberText(i) ==
    IF i < 10 THEN Rep(Digits[i + 1], 1)
    ELSE Cat(NumberText(i \div 10), Rep(Digits[(i % 10) + 1], 1))

RECURSIVE Escaped(_)
\* The characters of a string as JSON.stringify writes them between quotes:
\* a quote, a backslash and a line break are written \", \\ and \n.
Escaped(s) ==
    With(s, LAMBDA x : With(FirstOf(x, {"\"", "\\", "\n"}), LAMBDA i :
        IF i > Len(x) THEN x
        ELSE Cat(Cat(Cat(SubSeq(x, 1, i - 1), Rep("\\", 1)),
                     Rep(IF x[i].c = "\n" THEN "n" ELSE x[i].c, 1)),
                 Escaped(Rest(SubSeq(x, i, Len(x)))))))

Quoted(s) == Cat(Cat(Rep("\"", 1), Escaped(s)), Rep("\"", 1))

RECURSIVE Stringify(_, _, _)
RECURSIVE JoinElements(_, _, _, _)
RECURSIVE JoinMembers(_, _, _, _)

\* The elements vs from position i on, each on a line of its own at
\* indentation at (gap > 0) or separated by commas alone (gap = 0).
JoinElements(vs, i, gap, at) ==
    LET lead == IF gap > 0 THEN Cat(Rep("\n", 1), Rep(" ", at)) ELSE << >>
        item == Cat(lead, Stringify(vs[i], gap, at))
    IN  IF i = Len(vs) THEN item
        ELSE Cat(Cat(item, Rep(",", 1)), JoinElements(vs, i + 1, gap, at))

\* The members ms from position i on, written like the elements of an array.
JoinMembers(ms, i, gap, at) ==
    LET lead == IF gap > 0 THEN Cat(Rep("\n", 1), Rep(" ", at)) ELSE << >>
        colon == IF gap > 0 THEN Txt(<< ":", " " >>) ELSE Rep(":", 1)
        item == Cat(Cat(Cat(lead, Quoted(ms[i][1])), colon), Stringify(ms[i][2], gap, at))
    IN  IF i = Len(ms) THEN item
        ELSE Cat(Cat(item, Rep(",", 1)), JoinMembers(ms, i + 1, gap, at))

\* JSON.stringify(v, null, gap) of a value nested at indentation at.
Stringify(v, gap, at) ==
    LET close == IF gap > 0 THEN Cat(Rep("\n", 1), Rep(" ", at)) ELSE << >>
    IN  CASE v.t = "null" -> Txt(<< "n", "u", "l", "l" >>)
          [] v.t = "boolean" ->
                IF v.v THEN Txt(<< "t", "r", "u", "e" >>) ELSE Txt(<< "f", "a", "l", "s", "e" >>)
          [] v.t = "number" -> NumberText(v.v)
          [] v.t = "string" -> Quoted(v.v)
          [] v.t = "array" ->
                IF v.v = << >> THEN Txt(<< "[", "]" >>)
                ELSE Cat(Cat(Cat(Rep("[", 1), JoinElements(v.v, 1, gap, at + gap)), close),
                         Rep("]", 1))
          [] OTHER ->
                IF v.v = << >> THEN Txt(<< "{", "}" >>)
                ELSE Cat(Cat(Cat(Rep("{", 1), JoinMembers(v.v, 1, gap, at + gap)), close),
                         Rep("}", 1))

\* JSON.stringify(v, null, 2)
Pretty(v) == Stringify(v, 2, 0)

\* JSON.stringify(v)
Compact(v) == Stringify(v, 0, 0)

\* A JavaScript `undefined` where a value is expected (an omitted body).
JUndefined == [t |-> "undefined", v |-> 0]

\* `if (v)` for a value.
TruthyValue(v) ==
    CASE v.t \in {"undefined", "null"} -> FALSE
      [] v.t = "boolean" -> v.v
      [] v.t = "number" -> v.v # 0
      [] v.t = "string" -> v.v # << >>
      [] OTHER -> TRUE

\* ------------------------------------------------------------- environment

\* The process environments the model starts from: every combination of the
\* token and the three credentials being set or not, with the default API
\* domain, and the fully configured process with a regional API domain.
Environments ==
    [ ZOHO_ACCESS_TOKEN : {Absent, "tok0"},
      ZOHO_REFRESH_TOKEN : {Absent, "rt"},
      ZOHO_CLIENT_ID : {Absent, "cid"},
      ZOHO_CLIENT_SECRET : {Absent, "cs"},
      ZOHO_API_DOMAIN : {Absent},
      ZOHO_ACCOUNTS_DOMAIN : {Absent} ]
    \cup
    [ ZOHO_ACCESS_TOKEN : {"tok0"},
      ZOHO_REFRESH_TOKEN : {"rt"},
      ZOHO_CLIENT_ID : {"cid"},
      ZOHO_CLIENT_SECRET : {"cs"},
      ZOHO_API_DOMAIN : {EU_API},
      ZOHO_ACCOUNTS_DOMAIN : {Absent} ]

\* let config: ZohoConfig = { accessToken: process.env.ZOHO_ACCESS_TOKEN || "", ... }
InitialConfig(env) ==
    [ accessToken |-> OrDefault(env.ZOHO_ACCESS_TOKEN, ""),
      refreshToken |-> OrDefault(env.ZOHO_REFRESH_TOKEN, ""),
      clientId |-> OrDefault(env.ZOHO_CLIENT_ID, ""),
      clientSecret |-> OrDefault(env.ZOHO_CLIENT_SECRET, ""),
      apiDomain |-> OrDefault(env.ZOHO_API_DOMAIN, US_API),
      accountsDomain |-> OrDefault(env.ZOHO_ACCOUNTS_DOMAIN, US_ACCOUNTS) ]

\* A `data` that holds no response yet.
NoData == [ error |-> Absent, access_token |-> Absent, api_domain |-> Absent ]

\* What the token endpoint can answer, a JSON object in which each of error,
\* access_token and api_domain is present, empty or missing: a grant with or
\* without a token and a domain, an error report with or without the other
\* fields, and the two answers that carry an empty error or an empty domain.
TokenResponses ==
    [ error : {Absent}, access_token : {Absent, "tokA", "tokB"}, api_domain : {Absent, IN_API} ]
    \cup
    { [ error |-> "invalid_code", access_token |-> Absent, api_domain |-> Absent ],
      [ error |-> "invalid_code", access_token |-> "tokB", api_domain |-> IN_API ],
      [ error |-> "", access_token |-> "tokA", api_domain |-> Absent ],
      [ error |-> Absent, access_token |-> "tokA", api_domain |-> "" ] }

\* How the fetch of the token endpoint can end: the request is rejected
\* (transport failure), the body is not JSON, or the body is a JSON object.
TokenOutcomes ==
    { [kind |-> "reject", data |-> NoData], [kind |-> "badjson", data |-> NoData] }
    \cup { [kind |-> "json", data |-> d] : d \in TokenResponses }

\* Response bodies: nothing, text that is not JSON, a JSON array.
NoBody == << >>
Boom == Txt(<< "b", "o", "o", "m" >>)
OneElement == Txt(<< "[", "1", "]" >>)

Bodies == { NoBody, Boom, OneElement }
Statuses == { 200, 204, 401, 500 }

\* How the fetch of the API can end: rejected, or a response.  A 204 comes
\* without a body and a 401 with text; PayloadOutcomes has every combination.
ApiOutcomes ==
    { [kind |-> "reject", status |-> 0, body |-> NoBody] }
    \cup { o \in [kind : {"response"}, status : Statuses, body : Bodies] :
              /\ o.status = 204 => o.body = NoBody
              /\ o.status = 401 => o.body = Boom
              /\ o.status = 500 => o.body # NoBody }

\* The queryParams argument: omitted, or a map given as its entries in order.
NoQuery == [given |-> FALSE, params |-> << >>]

Query(ps) == [given |-> TRUE, params |-> ps]

\* The arguments of one zohoRequest(path, method, body, queryParams) call.
\* The path is given by its parts: the characters ?, = and & that a template
\* literal puts in it are parts of their own.
Call(path, method, body, query) ==
    [path |-> path, method |-> method, body |-> body, queryParams |-> query]

\* const body = { users: [{ first_name: ..., last_name: ..., ... }] };
CreateUserBody ==
    JObj(<< << Txt(<< "u", "s", "e", "r", "s" >>), JArr(<< JObj(<< << Txt(<< "l", "a", "s", "t", "_", "n", "a", "m", "e" >>), JStr(Txt(<< "D", "o", "e" >>)) >> >>) >>) >> >>)

\* zohoRequest("Leads", "GET")
GetLeads == Call(<< "Leads" >>, "GET", JUndefined, NoQuery)

\* zoho_get_fields with module "Leads" and the type given by the query map q:
\* zohoRequest(`settings/fields?module=${params.module}`, "GET", undefined, query)
GetFields(q) ==
    Call(<< "settings/fields", "?", "module", "=", "Leads" >>, "GET", JUndefined, Query(q))

\* The calls the tool handlers make: with a body, with neither body nor query,
\* with a query map, with an empty query map, with an empty object as body,
\* for the records of a module, and with a query in the path and a query map.
Calls ==
    << Call(<< "users" >>, "POST", CreateUserBody, NoQuery),
       Call(<< "settings/modules" >>, "GET", JUndefined, NoQuery),
       Call(<< "users" >>, "GET", JUndefined, Query(<< << "type", "ActiveUsers" >>, << "page", "2" >> >>)),
       Call(<< "users/42" >>, "DELETE", JUndefined, Query(<< >>)),
       Call(<< "actions/approvals/42/approve" >>, "POST", JObj(<< >>), NoQuery),
       GetLeads,
       GetFields(<< << "type", "unused" >> >>),
       GetFields(<< >>) >>

NoCall == Call(<< >>, Absent, JUndefined, NoQuery)

\* ------------------------------------------------------------------- state

VARIABLES
    config,   \* the module-level `config` object
    startup,  \* history: `config` as constructed at module load
    task,     \* per caller: its position in zohoRequest / refreshAccessToken and its locals
    journal,  \* history: the updateConfig calls and token responses applied to `config`, in order
    sessions, \* the `sessions` map of runHTTP: session id -> transport
    conn,     \* per GET /sse request: its transport's session id and how far it has come
    post      \* per POST /messages request: its sessionId parameter and what became of it

vars == << config, startup, task, journal, sessions, conn, post >>

\* The state of the HTTP transport.
http == << sessions, conn, post >>

\* A record with no field.
NoFields == [f \in {} |-> Absent]

NoRequest == [url |-> << >>, method |-> Absent, headers |-> NoFields]

NoResponse == [status |-> 0, body |-> NoBody]

Pending == [state |-> "pending"]

\* A GET /sse request that has not arrived yet.
NoConn == [state |-> "none", sessionId |-> Absent]

\* A POST /messages request that has not arrived yet.
NoPost == [state |-> "none", sessionId |-> Absent, status |-> 0, transport |-> 0]

\* A caller that has not been invoked yet.
IdleTask ==
    [ pc |-> "idle",          \* idle, refreshing, refreshed, fetching, done
      op |-> "none",          \* dispatch (zohoRequest) or refresh (refreshAccessToken called directly)
      retried |-> FALSE,      \* the `retried` parameter of the current zohoRequest frame
      depth |-> 0,            \* the zohoRequest frames of the call, one inside the other
      site |-> "none",        \* where refreshAccessToken was called from: pre (l.65), 401 (l.89), direct
      args |-> NoCall,        \* the path, method, body and queryParams of the zohoRequest call
      hadToken |-> FALSE,     \* history: config.accessToken was non-empty at invocation
      data |-> NoData,        \* refreshAccessToken's local `data`, from the response to the return
      obtained |-> Absent,    \* history: the token the caller's refreshAccessToken returned, while its next request is out
      sent |-> NoRequest,     \* the API request in flight
      first |-> NoRequest,    \* history: what the first API request asked for
      response |-> NoResponse, \* history: the status and body of the last API response
      result |-> Pending,     \* what the call returned or threw
      reply |-> << >>,        \* what the tool handler returned to the MCP server, once it has
      log |-> << >> ]         \* history: the calls made and responses seen, in order

\* ------------------------------------------------------------------ errors

Returned(v) == [state |-> "returned", value |-> v]

Threw(e) == [state |-> "threw", error |-> e]

\* throw new Error("Missing refresh token, client ID, or client secret. ...")
MissingCredentialsError ==
    [ name |-> "Error",
      message |-> << "Missing refresh token, client ID, or client secret. " >> ]

\* throw new Error(`Token refresh failed: ${data.error}`)
TokenRefreshError(e) ==
    [ name |-> "Error", message |-> << "Token refresh failed: ", e >> ]

\* throw new Error(`Zoho API error (${response.status}): ${errorDetail}`)
ZohoApiError(status, detail) ==
    [ name |-> "Error", message |-> << "Zoho API error (", status, "): ", detail >> ]

\* fetch() rejects when the request does not complete.
FetchFailed == [ name |-> "TypeError", message |-> << "fetch failed" >> ]

\* response.json() / JSON.parse on text that is not JSON.
JsonSyntaxError == [ name |-> "SyntaxError", message |-> << "Unexpected token" >> ]

\* --------------------------------------------------------- refreshAccessToken

\* if (!config.refreshToken || !config.clientId || !config.clientSecret)
MissingCredentials(cfg) ==
    Falsy(cfg.refreshToken) \/ Falsy(cfg.clientId) \/ Falsy(cfg.clientSecret)

\* CallRefresh without the credentials check.
CallRefreshUnchecked(t, cfg, s) ==
    [t EXCEPT !.pc = "refreshing", !.site = s, !.log = @ \o << "refresh", "oauth" >>]

\* refreshAccessToken() up to its first await, called by task record t from
\* call site s: throw on missing credentials, else POST to the token endpoint.
CallRefresh(t, cfg, s) ==
    IF MissingCredentials(cfg)
    THEN [t EXCEPT !.pc = "done",
                   !.site = s,
                   !.result = Threw(MissingCredentialsError),
                   !.log = Append(@, "refresh")]
    ELSE [t EXCEPT !.pc = "refreshing",
                   !.site = s,
                   !.log = @ \o << "refresh", "oauth" >>]

\* ApplyToken assigning config.apiDomain whether or not the response has one.
ApplyTokenAlwaysDomain(cfg, d) ==
    [cfg EXCEPT !.accessToken = d.access_token, !.apiDomain = d.api_domain]

\* ApplyToken storing the token as the refresh token too.
ApplyTokenAndRefreshToken(cfg, d) ==
    [cfg EXCEPT !.accessToken = d.access_token,
                !.refreshToken = d.access_token,
                !.apiDomain = IF Truthy(d.api_domain) THEN d.api_domain ELSE @]

\* ApplyToken keeping a token that is already there (the first write wins).
ApplyTokenFirstWins(cfg, d) ==
    [cfg EXCEPT !.accessToken = IF Truthy(@) THEN @ ELSE d.access_token,
                !.apiDomain = IF Truthy(d.api_domain) THEN d.api_domain ELSE @]

\* ApplyToken forgetting to store the token.
ApplyTokenDomainOnly(cfg, d) ==
    [cfg EXCEPT !.apiDomain = IF Truthy(d.api_domain) THEN d.api_domain ELSE @]

\* config.accessToken = data.access_token;
\* if (data.api_domain) { config.apiDomain = data.api_domain; }
ApplyToken(cfg, d) ==
    [cfg EXCEPT !.accessToken = d.access_token,
                !.apiDomain = IF Truthy(d.api_domain) THEN d.api_domain ELSE @]

\* ConfigAfterRefresh writing the config before looking at data.error.
ConfigAfterRefreshEager(cfg, o) ==
    IF o.kind = "json" THEN ApplyToken(cfg, o.data) ELSE cfg

\* ConfigAfterRefresh dropping the access token when the token request fails.
ConfigAfterRefreshForgetting(cfg, o) ==
    CASE o.kind = "json" /\ Falsy(o.data.error) -> ApplyToken(cfg, o.data)
      [] o.kind = "reject" -> [cfg EXCEPT !.accessToken = ""]
      [] OTHER -> cfg

\* The config after the token endpoint answered o.
ConfigAfterRefresh(cfg, o) ==
    IF o.kind = "json" /\ Falsy(o.data.error) THEN ApplyToken(cfg, o.data) ELSE cfg

\* refreshAccessToken() from the fetch's completion to its return or throw.
FinishRefresh(t, o) ==
    CASE o.kind = "reject" ->
            [t EXCEPT !.pc = "done", !.result = Threw(FetchFailed),
                      !.log = Append(@, "oauth_failed")]
      [] o.kind = "badjson" ->
            [t EXCEPT !.pc = "done", !.result = Threw(JsonSyntaxError),
                      !.log = Append(@, "oauth_unparsed")]
      [] o.kind = "json" /\ Truthy(o.data.error) ->
            [t EXCEPT !.pc = "done", !.data = o.data,
                      !.result = Threw(TokenRefreshError(o.data.error)),
                      !.log = Append(@, "oauth_error")]
      [] OTHER ->
            [t EXCEPT !.pc = "refreshed", !.data = o.data,
                      !.obtained = o.data.access_token,
                      !.log = Append(@, "granted")]

\* ---------------------------------------------------------------- zohoRequest

RECURSIVE SearchParams(_)
\* new URLSearchParams(queryParams).toString(), for keys and values that need
\* no escaping: k=v joined by &.
SearchParams(ps) ==
    IF ps = << >> THEN << >>
    ELSE << ps[1][1], "=", ps[1][2] >>
         \o (IF Len(ps) > 1 THEN << "&" >> ELSE << >>)
         \o SearchParams(Tail(ps))

\* let url = `${config.apiDomain}/crm/v7/${path}`;
\* if (queryParams) { url += `?${new URLSearchParams(queryParams).toString()}`; }
Url(cfg, a) ==
    << cfg.apiDomain, "/crm/v7/" >> \o a.path
    \o (IF a.queryParams.given THEN << "?" >> \o SearchParams(a.queryParams.params) ELSE << >>)

\* headers = { Authorization: `Zoho-oauthtoken ${config.accessToken}` }
AuthorizationHeader(cfg) == [Authorization |-> << "Zoho-oauthtoken ", cfg.accessToken >>]

\* BuildRequest sending the body object whether or not one was given.
BuildRequestAlwaysBody(cfg, a) ==
    [ url |-> Url(cfg, a), method |-> a.method,
      headers |-> AuthorizationHeader(cfg) @@ ("Content-Type" :> "application/json"),
      body |-> IF a.body.t = "undefined" THEN Compact(JNull) ELSE Compact(a.body) ]

\* The url and fetchOptions of zohoRequest:
\* if (body) { headers["Content-Type"] = "application/json";
\*             fetchOptions.body = JSON.stringify(body); }
BuildRequest(cfg, a) ==
    IF TruthyValue(a.body)
    THEN [ url |-> Url(cfg, a), method |-> a.method,
           headers |-> AuthorizationHeader(cfg) @@ ("Content-Type" :> "application/json"),
           body |-> Compact(a.body) ]
    ELSE [ url |-> Url(cfg, a), method |-> a.method, headers |-> AuthorizationHeader(cfg) ]

\* The access token a request carries.
BearerOf(req) ==
    IF "Authorization" \in DOMAIN req.headers THEN req.headers.Authorization[2] ELSE Absent

\* The API domain a request goes to.
DomainOf(req) == IF req.url = << >> THEN Absent ELSE req.url[1]

\* What a request asks for: the request without the API domain and the token
\* it was built with.
Asked(req) ==
    [req EXCEPT !.url = Tail(@),
                !.headers = [h \in (DOMAIN @) \ {"Authorization"} |-> @[h]]]

\* const response = await fetch(url, fetchOptions);
SendRequest(t, cfg) ==
    [t EXCEPT !.pc = "fetching",
              !.sent = BuildRequest(cfg, t.args),
              !.first = IF @ = NoRequest THEN Asked(BuildRequest(cfg, t.args)) ELSE @,
              !.log = Append(@, "api")]

\* Enter refreshing whatever the token.
EnterAlwaysRefresh(t, cfg, r) ==
    CallRefresh([t EXCEPT !.retried = r, !.depth = @ + 1], cfg, "pre")

\* Enter without the refresh of an absent token.
EnterNeverRefresh(t, cfg, r) ==
    SendRequest([t EXCEPT !.retried = r, !.depth = @ + 1], cfg)

\* zohoRequest(path, method, body, queryParams, retried) up to its first await.
Enter(t, cfg, r) ==
    LET frame == [t EXCEPT !.retried = r, !.depth = @ + 1]
    IN  IF Falsy(cfg.accessToken)
        THEN CallRefresh(frame, cfg, "pre")
        ELSE SendRequest(frame, cfg)

\* response.ok
Ok(status) == status >= 200 /\ status <= 299

\* ErrorDetail giving the body as it came, parsed or not.
ErrorDetailRaw(body) == body

\* let errorDetail: string;
\* try { errorDetail = JSON.stringify(JSON.parse(responseText), null, 2); }
\* catch { errorDetail = responseText; }
ErrorDetail(body) ==
    With(JSONparse(body), LAMBDA parsed : IF parsed.ok THEN Pretty(parsed.value) ELSE body)

\* return { status: "success", message: "No content" } as T;
NoContent ==
    JObj(<< << Txt(<< "s", "t", "a", "t", "u", "s" >>), JStr(Txt(<< "s", "u", "c", "c", "e", "s", "s" >>)) >>,
            << Txt(<< "m", "e", "s", "s", "a", "g", "e" >>), JStr(Txt(<< "N", "o", " ", "c", "o", "n", "t", "e", "n", "t" >>)) >> >>)

\* return { status: "success" } as T;
Success == JObj(<< << Txt(<< "s", "t", "a", "t", "u", "s" >>), JStr(Txt(<< "s", "u", "c", "c", "e", "s", "s" >>)) >> >>)

\* Settle reading the body of a 204 like that of any other success.
SettleReadingNoContent(t, o) ==
    CASE ~Ok(o.status) ->
            [t EXCEPT !.pc = "done",
                      !.result = Threw(ZohoApiError(o.status, ErrorDetail(o.body)))]
      [] Ok(o.status) /\ o.body = NoBody ->
            [t EXCEPT !.pc = "done", !.result = Returned(Success)]
      [] OTHER ->
            With(JSONparse(o.body), LAMBDA parsed :
                IF parsed.ok
                THEN [t EXCEPT !.pc = "done", !.result = Returned(parsed.value)]
                ELSE [t EXCEPT !.pc = "done", !.result = Threw(JsonSyntaxError)])

\* Settle returning the text of a success instead of the value it denotes.
SettleUnparsed(t, o) ==
    CASE o.status = 204 ->
            [t EXCEPT !.pc = "done", !.result = Returned(NoContent)]
      [] o.status # 204 /\ ~Ok(o.status) ->
            [t EXCEPT !.pc = "done",
                      !.result = Threw(ZohoApiError(o.status, ErrorDetail(o.body)))]
      [] OTHER ->
            [t EXCEPT !.pc = "done", !.result = Returned(JStr(o.body))]

\* zohoRequest from the API response to its return or throw, the 401 retry apart.
Settle(t, o) ==
    CASE o.status = 204 ->
            [t EXCEPT !.pc = "done", !.result = Returned(NoContent)]
      [] o.status # 204 /\ ~Ok(o.status) ->
            [t EXCEPT !.pc = "done",
                      !.result = Threw(ZohoApiError(o.status, ErrorDetail(o.body)))]
      [] o.status # 204 /\ Ok(o.status) /\ o.body = NoBody ->
            [t EXCEPT !.pc = "done", !.result = Returned(Success)]
      [] OTHER ->
            With(JSONparse(o.body), LAMBDA parsed :
                IF parsed.ok
                THEN [t EXCEPT !.pc = "done", !.result = Returned(parsed.value)]
                ELSE [t EXCEPT !.pc = "done", !.result = Threw(JsonSyntaxError)])

\* OnResponse raising the refresh failure for a 401 on the retried attempt.
OnResponseSecondUnauthorizedAsRefreshFailure(t, cfg, o) ==
    IF o.kind = "reject"
    THEN [t EXCEPT !.pc = "done", !.sent = NoRequest, !.obtained = Absent,
                   !.result = Threw(FetchFailed),
                   !.log = Append(@, "api_failed")]
    ELSE LET seen == [t EXCEPT !.sent = NoRequest, !.obtained = Absent,
                               !.response = [status |-> o.status, body |-> o.body],
                               !.log = Append(@, IF o.status = 401 THEN "resp401" ELSE "resp")]
         IN  IF o.status = 401
             THEN IF t.retried
                  THEN [seen EXCEPT !.pc = "done",
                                    !.result = Threw(TokenRefreshError("unauthorized"))]
                  ELSE CallRefresh(seen, cfg, "401")
             ELSE Settle(seen, o)

\* OnResponse refreshing and retrying after any failure status, not 401 alone.
OnResponseRetryingAnyFailure(t, cfg, o) ==
    IF o.kind = "reject"
    THEN [t EXCEPT !.pc = "done", !.sent = NoRequest, !.obtained = Absent,
                   !.result = Threw(FetchFailed),
                   !.log = Append(@, "api_failed")]
    ELSE LET seen == [t EXCEPT !.sent = NoRequest, !.obtained = Absent,
                               !.response = [status |-> o.status, body |-> o.body],
                               !.log = Append(@, IF o.status = 401 THEN "resp401" ELSE "resp")]
         IN  IF ~Ok(o.status) /\ ~t.retried
             THEN CallRefresh(seen, cfg, "401")
             ELSE Settle(seen, o)

\* zohoRequest after `await fetch(url, fetchOptions)`.
OnResponse(t, cfg, o) ==
    IF o.kind = "reject"
    THEN [t EXCEPT !.pc = "done", !.sent = NoRequest, !.obtained = Absent,
                   !.result = Threw(FetchFailed),
                   !.log = Append(@, "api_failed")]
    ELSE LET seen == [t EXCEPT !.sent = NoRequest, !.obtained = Absent,
                               !.response = [status |-> o.status, body |-> o.body],
                               !.log = Append(@, IF o.status = 401 THEN "resp401" ELSE "resp")]
         IN  IF o.status = 401 /\ ~t.retried
             THEN CallRefresh(seen, cfg, "401")
             ELSE Settle(seen, o)

\* Resume repeating the request without its body and query map.
ResumeBare(t, cfg) ==
    LET back == [t EXCEPT !.data = NoData]
    IN  CASE t.site = "pre" -> SendRequest(back, cfg)
          [] t.site = "401" ->
                Enter([back EXCEPT !.args.body = JUndefined, !.args.queryParams = NoQuery],
                      cfg, TRUE)
          [] OTHER -> [t EXCEPT !.pc = "done", !.result = Returned(t.data.access_token)]

\* Resume retrying with retried = false: zohoRequest(path, method, body, queryParams).
ResumeRetryingAgain(t, cfg) ==
    LET back == [t EXCEPT !.data = NoData]
    IN  CASE t.site = "pre" -> SendRequest(back, cfg)
          [] t.site = "401" -> Enter(back, cfg, FALSE)
          [] OTHER -> [t EXCEPT !.pc = "done", !.result = Returned(t.data.access_token)]

\* Resume going on with the token its own refreshAccessToken returned.
ResumeWithOwnToken(t, cfg) ==
    LET back == [t EXCEPT !.data = NoData]
        own == [cfg EXCEPT !.accessToken = t.data.access_token]
    IN  CASE t.site = "pre" -> SendRequest(back, own)
          [] t.site = "401" -> Enter(back, own, TRUE)
          [] OTHER -> [t EXCEPT !.pc = "done", !.result = Returned(t.data.access_token)]

\* The caller's code after `await refreshAccessToken()` resumes.
Resume(t, cfg) ==
    LET back == [t EXCEPT !.data = NoData]
    IN  CASE t.site = "pre" -> SendRequest(back, cfg)
          [] t.site = "401" -> Enter(back, cfg, TRUE)
          [] OTHER -> [t EXCEPT !.pc = "done", !.result = Returned(t.data.access_token)]

\* -------------------------------------------------------------- tool handlers

\* "\n\n[Response truncated. Use pagination or filters to narrow results.]"
TruncationNotice ==
    Txt(<< "\n", "\n", "[", "R", "e", "s", "p", "o", "n", "s", "e", " ", "t", "r", "u", "n", "c", "a", "t", "e", "d", ".", " ",
          "U", "s", "e", " ", "p", "a", "g", "i", "n", "a", "t", "i", "o", "n", " ", "o", "r", " ", "f", "i", "l", "t", "e", "r", "s", " ", "t", "o", " ", "n", "a", "r", "r", "o", "w", " ",
          "r", "e", "s", "u", "l", "t", "s", ".", "]" >>)

\* truncateResponse cutting a text of exactly CHARACTER_LIMIT characters too.
truncateResponseFromLimit(text) ==
    With(text, LAMBDA x :
        IF Length(x) >= CHARACTER_LIMIT
        THEN Cat(Take(x, CHARACTER_LIMIT), TruncationNotice)
        ELSE x)

\* if (text.length > CHARACTER_LIMIT)
\*   return text.substring(0, CHARACTER_LIMIT) + "\n\n[Response truncated. ...]";
\* return text;
truncateResponse(text) ==
    With(text, LAMBDA x :
        IF Length(x) > CHARACTER_LIMIT
        THEN Cat(Take(x, CHARACTER_LIMIT), TruncationNotice)
        ELSE x)

\* const text = JSON.stringify(data, null, 2); return truncateResponse(text);
formatResponse(data) == truncateResponse(Pretty(data))

\* return { content: [{ type: "text", text: formatResponse(data) }] };
buildToolResponse(data) ==
    [content |-> << [type |-> "text", text |-> formatResponse(data)] >>]

\* error instanceof Error: the errors of this model are the records with a
\* name and a message, every other thrown value is a JSON value or undefined.
IsError(error) == "name" \in DOMAIN error

RECURSIVE StringOf(_)
RECURSIVE JoinStrings(_, _)

\* vs.join(","), from position i on: null and undefined elements give nothing.
JoinStrings(vs, i) ==
    (IF vs[i].t \in {"null", "undefined"} THEN << >> ELSE StringOf(vs[i]))
    \o (IF i = Len(vs) THEN << >> ELSE Rep(",", 1) \o JoinStrings(vs, i + 1))

\* The runs of String(v) for a value that is not an Error.
StringOf(v) ==
    CASE v.t = "undefined" -> Txt(<< "u", "n", "d", "e", "f", "i", "n", "e", "d" >>)
      [] v.t = "null" -> Txt(<< "n", "u", "l", "l" >>)
      [] v.t = "boolean" ->
            IF v.v THEN Txt(<< "t", "r", "u", "e" >>) ELSE Txt(<< "f", "a", "l", "s", "e" >>)
      [] v.t = "number" -> NumberText(v.v)
      [] v.t = "string" -> v.v
      [] v.t = "array" -> IF v.v = << >> THEN << >> ELSE JoinStrings(v.v, 1)
      [] OTHER -> Txt(<< "[", "o", "b", "j", "e", "c", "t", " ", "O", "b", "j", "e", "c", "t", "]" >>)

RECURSIVE Merged(_, _)
\* The runs s with those that meet, from position i on, made one run.
Merged(s, i) ==
    IF i >= Len(s) THEN s
    ELSE IF s[i].c = s[i + 1].c
         THEN Merged(SubSeq(s, 1, i - 1)
                     \o << [c |-> s[i].c, n |-> s[i].n + s[i + 1].n] >>
                     \o SubSeq(s, i + 2, Len(s)), i)
         ELSE Merged(s, i + 1)

\* buildErrorResponse taking the string form of every value, Errors included:
\* String(new Error(m)) is "Error: " + m.
buildErrorResponseStringified(error) ==
    [ content |-> << [type |-> "text",
                     text |-> IF IsError(error)
                              THEN << "Error: ", error.name, ": " >> \o error.message
                              ELSE << "Error: ", Merged(StringOf(error), 1) >>] >>,
      isError |-> TRUE ]

\* const message = error instanceof Error ? error.message : String(error);
\* return { content: [{ type: "text", text: `Error: ${message}` }], isError: true };
buildErrorResponse(error) ==
    [ content |-> << [type |-> "text",
                     text |-> IF IsError(error)
                              THEN << "Error: " >> \o error.message
                              ELSE << "Error: ", Merged(StringOf(error), 1) >>] >>,
      isError |-> TRUE ]

\* Handler without the catch: an error leaves the handler as an exception.
HandlerWithoutCatch(t) ==
    With(t, LAMBDA x :
        IF x.op = "dispatch" /\ x.pc = "done" /\ x.result.state = "returned"
        THEN [x EXCEPT !.reply = << buildToolResponse(x.result.value) >>]
        ELSE x)

\* try { const data = await zohoRequest(...); return buildToolResponse(data); }
\* catch (error) { return buildErrorResponse(error); }
\* applied to the task record once its zohoRequest has returned or thrown.
Handler(t) ==
    With(t, LAMBDA x :
        IF x.op = "dispatch" /\ x.pc = "done"
        THEN [x EXCEPT !.reply =
                << IF x.result.state = "returned"
                   THEN buildToolResponse(x.result.value)
                   ELSE buildErrorResponse(x.result.error) >>]
        ELSE x)

\* ------------------------------------------------------------------ actions

Init ==
    /\ \E env \in Environments :
          /\ config = InitialConfig(env)
          /\ startup = InitialConfig(env)
    /\ task = [p \in Tasks |-> IdleTask]
    /\ journal = << >>
    /\ sessions = NoFields
    /\ conn = [c \in Conns |-> NoConn]
    /\ post = [m \in Posts |-> NoPost]

\* A tool handler calls zohoRequest(path, method, body, queryParams) with the
\* arguments a.
DispatchCall(p, a) ==
    /\ task[p].pc = "idle"
    /\ task' = [task EXCEPT ![p] =
                  Handler(Enter([@ EXCEPT !.op = "dispatch",
                                          !.args = a,
                                          !.hadToken = Truthy(config.accessToken)],
                                config, FALSE))]
    /\ UNCHANGED << config, startup, journal, http >>

\* The handler of zoho_create_user is invoked.
Dispatch(p) == DispatchCall(p, Calls[1])

\* refreshAccessToken() called on its own.
Refresh(p) ==
    /\ task[p].pc = "idle"
    /\ task' = [task EXCEPT ![p] =
                  CallRefresh([@ EXCEPT !.op = "refresh",
                                        !.hadToken = Truthy(config.accessToken)],
                              config, "direct")]
    /\ UNCHANGED << config, startup, journal, http >>

\* The token endpoint's answer reaches the refreshAccessToken of task p.
TokenArrives(p, o) ==
    /\ task[p].pc = "refreshing"
    /\ config' = ConfigAfterRefresh(config, o)
    /\ task' = [task EXCEPT ![p] = Handler(FinishRefresh(@, o))]
    /\ UNCHANGED << startup, journal, http >>

\* The code awaiting refreshAccessToken() in task p resumes.
Resumes(p) ==
    /\ task[p].pc = "refreshed"
    /\ task' = [task EXCEPT ![p] = Handler(Resume(@, config))]
    /\ UNCHANGED << config, startup, journal, http >>

\* The API's answer reaches the zohoRequest of task p.
ResponseArrives(p, o) ==
    /\ task[p].pc = "fetching"
    /\ task' = [task EXCEPT ![p] = Handler(OnResponse(@, config, o))]
    /\ UNCHANGED << config, startup, journal, http >>

Next ==
    \E p \in Tasks :
        \/ Dispatch(p)
        \/ Refresh(p)
        \/ \E o \in TokenOutcomes : TokenArrives(p, o)
        \/ Resumes(p)
        \/ \E o \in ApiOutcomes : ResponseArrives(p, o)

Spec == Init /\ [][Next]_vars

\* ------------------------------------------- a remote that honours its tokens

\* The process has all three credentials.
RaceEnvironments ==
    { env \in Environments : ~MissingCredentials(InitialConfig(env)) }

\* The token endpoint grants a token, with or without a new API domain.
GrantOutcomes ==
    { [kind |-> "json", data |-> d] :
        d \in [ error : {Absent}, access_token : {"tokA", "tokB"}, api_domain : {Absent, IN_API} ] }

IssuedTokens == { o.data.access_token : o \in GrantOutcomes }

\* The API answers a request that carries an issued token with a success, and
\* any other request with 401.
HonestOutcomes(req) ==
    IF BearerOf(req) \in IssuedTokens
    THEN { [kind |-> "response", status |-> 200, body |-> OneElement],
           [kind |-> "response", status |-> 200, body |-> NoBody],
           [kind |-> "response", status |-> 204, body |-> NoBody] }
    ELSE { [kind |-> "response", status |-> 401, body |-> Boom] }

RaceInit ==
    /\ \E env \in RaceEnvironments :
          /\ config = InitialConfig(env)
          /\ startup = InitialConfig(env)
    /\ task = [p \in Tasks |-> IdleTask]
    /\ journal = << >>
    /\ sessions = NoFields
    /\ conn = [c \in Conns |-> NoConn]
    /\ post = [m \in Posts |-> NoPost]

\* The process has a token, the three credentials and the default domains.
ConfiguredInit == RaceInit /\ config.accessToken = "tok0" /\ config.apiDomain = US_API

Granted(p) == \E o \in GrantOutcomes : TokenArrives(p, o)

Answered(p) == \E o \in HonestOutcomes(task[p].sent) : ResponseArrives(p, o)

RaceNext ==
    \E p \in Tasks :
        \/ Dispatch(p)
        \/ Granted(p)
        \/ Resumes(p)
        \/ Answered(p)

\* Every HTTP call completes and the event loop runs every continuation.
RaceSpec ==
    /\ RaceInit
    /\ [][RaceNext]_vars
    /\ \A p \in Tasks : WF_vars(Granted(p)) /\ WF_vars(Resumes(p)) /\ WF_vars(Answered(p))

\* ------------------------------------------------ one caller, any response

\* More bodies: white space alone, a JSON object, JSON with white space in it,
\* and three JSON texts whose indented form is CHARACTER_LIMIT characters long,
\* or one more: a string of that length, a string one longer, and an array
\* that is shorter than the limit as it comes and one longer when indented.
Blank == Txt(<< " " >>)
InvalidCode == Txt(<< "{", "\"", "c", "o", "d", "e", "\"", ":", "\"", "I", "N", "V", "A", "L", "I", "D", "\"", "}" >>)
Spaced == Txt(<< "[", " ", "1", " ", ",", " ", "{", "\"", "a", "\"", " ", ":", " ", "[", " ", "]", "}", " ", "]" >>)

LongString(n) == Quoted(Rep("a", n))

AtLimit == LongString(CHARACTER_LIMIT - 2)
OverLimit == LongString(CHARACTER_LIMIT - 1)
Wrapped == Cat(Cat(Rep("[", 1), LongString(CHARACTER_LIMIT - 7)), Rep("]", 1))

PayloadBodies == Bodies \cup { Blank, InvalidCode, Spaced, AtLimit, OverLimit, Wrapped }

PayloadStatuses == { 200, 201, 204, 400, 401, 429, 500 }

PayloadOutcomes ==
    { [kind |-> "reject", status |-> 0, body |-> NoBody] }
    \cup { [kind |-> "response", status |-> s, body |-> b] :
              s \in PayloadStatuses, b \in PayloadBodies }

\* Any of the tool handlers is invoked.
DispatchAny(p) == \E i \in DOMAIN Calls : DispatchCall(p, Calls[i])

TokenAnswers(p) == \E o \in TokenOutcomes : TokenArrives(p, o)

ApiAnswers(p) == \E o \in PayloadOutcomes : ResponseArrives(p, o)

PayloadNext ==
    \E p \in {1} :
        \/ DispatchAny(p)
        \/ TokenAnswers(p)
        \/ Resumes(p)
        \/ ApiAnswers(p)

\* One tool invocation, with any of the calls and any answer of the remote.
PayloadSpec == Init /\ [][PayloadNext]_vars

\* ------------------------------------------- a handler whose try block fails

\* Values a try block can throw: the errors of zohoRequest, and values that
\* are not Errors (a string, a number, undefined, null, a boolean, an object,
\* an array).
Quota == Txt(<< "q", "u", "o", "t", "a" >>)

FailureValues ==
    << MissingCredentialsError,
       TokenRefreshError("invalid_code"),
       ZohoApiError(500, Boom),
       FetchFailed,
       JsonSyntaxError,
       JStr(Quota),
       JStr(<< >>),
       JNum(404),
       JNum(0),
       JUndefined,
       JNull,
       JBool(FALSE),
       JObj(<< << Quota, JNum(1) >> >>),
       JArr(<< JNum(1), JNull, JStr(Quota) >>),
       JArr(<< >>) >>

\* The try block of the handler run by task p throws e and the catch clause
\* returns buildErrorResponse(e).
Catches(p, e) ==
    /\ task[p].pc = "idle"
    /\ task' = [task EXCEPT ![p] =
                  Handler([@ EXCEPT !.op = "dispatch", !.pc = "done", !.result = Threw(e)])]
    /\ UNCHANGED << config, startup, journal, http >>

ErrorNext == \E p \in Tasks : \E i \in DOMAIN FailureValues : Catches(p, FailureValues[i])

ErrorSpec == Init /\ [][ErrorNext]_vars

\* ------------------------------------------------- the config store in use

\* updateConfig with the spread the other way round: { ...updates, ...config }.
updateConfigKeeping(cfg, updates) ==
    [f \in DOMAIN cfg \cup DOMAIN updates |-> IF f \in DOMAIN cfg THEN cfg[f] ELSE updates[f]]

\* config = { ...config, ...updates };
updateConfig(cfg, updates) ==
    [f \in DOMAIN cfg \cup DOMAIN updates |-> IF f \in DOMAIN updates THEN updates[f] ELSE cfg[f]]

\* return config;
getConfig(cfg) == cfg

EU_ACCOUNTS == "https://accounts.zoho.eu"

\* Arguments of updateConfig: a Partial<ZohoConfig> with one field, with two,
\* with a field set to the empty string and one to undefined, with none.
Partials ==
    << [f \in {"accessToken"} |-> "tokU"],
       [f \in {"apiDomain", "accountsDomain"} |-> IF f = "apiDomain" THEN EU_API ELSE EU_ACCOUNTS],
       [f \in {"accessToken", "refreshToken"} |-> IF f = "accessToken" THEN Absent ELSE ""],
       NoFields >>

\* Answers of the token endpoint: a grant with a token and a domain, a grant
\* without either, an error report.
StoreOutcomes ==
    { o \in TokenOutcomes :
           /\ o.kind = "json"
           /\ o.data \in { [error |-> Absent, access_token |-> "tokA", api_domain |-> IN_API],
                           [error |-> Absent, access_token |-> Absent, api_domain |-> Absent],
                           [error |-> "invalid_code", access_token |-> "tokB", api_domain |-> IN_API] } }

\* What the journal keeps of an updateConfig call and of a token response.
Updated(updates) == [by |-> "update", fields |-> updates, data |-> NoData]

Answer(d) == [by |-> "refresh", fields |-> NoFields, data |-> d]

\* updateConfig(Partials[i]) is called.
UpdateConfig(i) ==
    /\ Cardinality({ k \in DOMAIN journal : journal[k].by = "update" }) < MaxUpdates
    /\ config' = updateConfig(config, Partials[i])
    /\ journal' = Append(journal, Updated(Partials[i]))
    /\ UNCHANGED << startup, task, http >>

\* Task p calls getConfig().
GetConfig(p) ==
    /\ task[p].pc = "idle"
    /\ task' = [task EXCEPT ![p] =
                  [@ EXCEPT !.op = "get", !.pc = "done", !.result = Returned(getConfig(config))]]
    /\ UNCHANGED << config, startup, journal, http >>

\* The token endpoint's answer reaches the refreshAccessToken of task p.
StoreTokenArrives(p, o) ==
    /\ task[p].pc = "refreshing"
    /\ config' = ConfigAfterRefresh(config, o)
    /\ task' = [task EXCEPT ![p] = Handler(FinishRefresh(@, o))]
    /\ journal' = Append(journal, Answer(o.data))
    /\ UNCHANGED << startup, http >>

StoreNext ==
    \/ \E i \in DOMAIN Partials : UpdateConfig(i)
    \/ \E p \in Tasks :
          \/ GetConfig(p)
          \/ Refresh(p)
          \/ \E o \in StoreOutcomes : StoreTokenArrives(p, o)
          \/ Resumes(p)

StoreSpec == ConfiguredInit /\ [][StoreNext]_vars

\* ------------------------------------------- every HTTP call completes

\* How the token endpoint and the API can answer: not at all, with a grant
\* with or without a token, with an error report; not at all, with a success,
\* with 401, with a server error.
FairTokenOutcomes ==
    { o \in TokenOutcomes :
        \/ o.kind = "reject"
        \/ /\ o.kind = "json"
           /\ o.data \in { [error |-> Absent, access_token |-> "tokA", api_domain |-> Absent],
                           [error |-> Absent, access_token |-> Absent, api_domain |-> Absent],
                           [error |-> "invalid_code", access_token |-> Absent, api_domain |-> Absent] } }

FairApiOutcomes ==
    { o \in ApiOutcomes : o.kind = "reject" \/ o.body \in {Boom, OneElement} }

FairDispatch(p) == DispatchCall(p, GetLeads)

FairTokenAnswers(p) == \E o \in FairTokenOutcomes : TokenArrives(p, o)

FairApiAnswers(p) == \E o \in FairApiOutcomes : ResponseArrives(p, o)

FairNext ==
    \E p \in Tasks :
        \/ FairDispatch(p)
        \/ FairTokenAnswers(p)
        \/ Resumes(p)
        \/ FairApiAnswers(p)

\* Every fetch settles, whatever the answer, and the event loop runs every
\* continuation.
FairSpec ==
    /\ Init
    /\ [][FairNext]_vars
    /\ \A p \in Tasks :
          WF_vars(FairTokenAnswers(p)) /\ WF_vars(Resumes(p)) /\ WF_vars(FairApiAnswers(p))

\* ------------------------------------------------------- the SSE transport

\* transport.sessionId, a fresh UUID for each transport: here the number of
\* the GET /sse request the transport was made for.
SessionId(c) == ToString(c)

\* The sessionId query parameter of a POST /messages request: missing, empty,
\* the id of no transport, the id of a transport.
SessionParams == { Absent, "", "unknown" } \cup { SessionId(c) : c \in Conns }

\* sessions.set(sessionId, transport), the transport being that of request c.
SessionCreated(ss, id, c) == [k \in DOMAIN ss \cup {id} |-> IF k = id THEN c ELSE ss[k]]

\* SessionClosed leaving the map as it is.
SessionClosedKept(ss, id) == ss

\* res.on("close", () => { sessions.delete(sessionId); })
SessionClosed(ss, id) == [k \in DOMAIN ss \ {id} |-> ss[k]]

\* Routed looking for the transport among all that were ever made, closed or
\* not.
RoutedToAnyTransport(ss, pst, sid) ==
    CASE Falsy(sid) -> [pst EXCEPT !.state = "done", !.sessionId = sid, !.status = 400]
      [] Truthy(sid) /\ ~(\E c \in Conns : conn[c].sessionId = sid) ->
            [pst EXCEPT !.state = "done", !.sessionId = sid, !.status = 404]
      [] OTHER ->
            [pst EXCEPT !.state = "handling", !.sessionId = sid,
                        !.transport = CHOOSE c \in Conns : conn[c].sessionId = sid]

\* app.post("/messages") up to `await transport.handlePostMessage(req, res)`:
\* 400 without a sessionId, 404 without a transport for it in the map.
Routed(ss, pst, sid) ==
    CASE Falsy(sid) -> [pst EXCEPT !.state = "done", !.sessionId = sid, !.status = 400]
      [] Truthy(sid) /\ sid \notin DOMAIN ss ->
            [pst EXCEPT !.state = "done", !.sessionId = sid, !.status = 404]
      [] OTHER ->
            [pst EXCEPT !.state = "handling", !.sessionId = sid, !.transport = ss[sid]]

\* How handlePostMessage can end: it returns or throws, having answered with
\* a status of its own or, when it throws, with nothing.
HandlingOutcomes ==
    { [threw |-> FALSE, sent |-> 202], [threw |-> FALSE, sent |-> 400],
      [threw |-> TRUE, sent |-> 400], [threw |-> TRUE, sent |-> 0] }

\* catch (error) { if (!res.headersSent) res.status(500).json(...); }
Settled(pst, o) ==
    [pst EXCEPT !.state = "done",
                !.status = IF o.threw /\ o.sent = 0 THEN 500 ELSE o.sent]

\* GET /sse request c is handled up to `await server.connect(transport)`.
GetSse(c) ==
    /\ conn[c].state = "none"
    /\ conn' = [conn EXCEPT ![c] = [state |-> "connecting", sessionId |-> SessionId(c)]]
    /\ sessions' = SessionCreated(sessions, SessionId(c), c)
    /\ UNCHANGED << config, startup, task, journal, post >>

\* server.connect(transport) returns (ok) or throws.
Connects(c, ok) ==
    /\ conn[c].state = "connecting"
    /\ conn' = [conn EXCEPT ![c].state = IF ok THEN "connected" ELSE "failed"]
    /\ UNCHANGED << config, startup, task, journal, sessions, post >>

\* The response of GET /sse request c closes.
Closes(c) ==
    /\ conn[c].state \in {"connecting", "connected", "failed"}
    /\ conn' = [conn EXCEPT ![c].state = "closed"]
    /\ sessions' = SessionClosed(sessions, conn[c].sessionId)
    /\ UNCHANGED << config, startup, task, journal, post >>

\* POST /messages request m arrives with the sessionId parameter sid.
PostMessage(m, sid) ==
    /\ post[m].state = "none"
    /\ post' = [post EXCEPT ![m] = Routed(sessions, @, sid)]
    /\ UNCHANGED << config, startup, task, journal, sessions, conn >>

\* The handlePostMessage of request m ends.
MessageHandled(m, o) ==
    /\ post[m].state = "handling"
    /\ post' = [post EXCEPT ![m] = Settled(@, o)]
    /\ UNCHANGED << config, startup, task, journal, sessions, conn >>

SseNext ==
    \/ \E c \in Conns :
          \/ GetSse(c)
          \/ \E ok \in BOOLEAN : Connects(c, ok)
          \/ Closes(c)
    \/ \E m \in Posts :
          \/ \E sid \in SessionParams : PostMessage(m, sid)
          \/ \E o \in HandlingOutcomes : MessageHandled(m, o)

SseSpec == ConfiguredInit /\ [][SseNext]_vars

\* ----------------------------------------------------- reading the history

\* How many times event e occurs in log lg.
Count(lg, e) == Cardinality({ i \in DOMAIN lg : lg[i] = e })

\* The position of the first e in lg, 0 when there is none.
First(lg, e) ==
    IF \E i \in DOMAIN lg : lg[i] = e
    THEN CHOOSE i \in DOMAIN lg : lg[i] = e /\ \A j \in 1..(i - 1) : lg[j] # e
    ELSE 0

\* lg after position i.
After(lg, i) == SubSeq(lg, i + 1, Len(lg))

\* lg before position i.
Before(lg, i) == SubSeq(lg, 1, i - 1)

Dispatches == { p \in Tasks : task[p].op = "dispatch" }

Done(p) == task[p].pc = "done"

\* The error kinds of the error-handling design, read off the thrown error.
ErrorKind(e) ==
    CASE e.message[1] = "Missing refresh token, client ID, or client secret. " -> "Configuration"
      [] e.message[1] = "Token refresh failed: " -> "Authentication"
      [] e.message[1] = "Zoho API error (" -> "API"
      [] e.name = "TypeError" -> "Network"
      [] OTHER -> "Other"

\* -------------------------------------------------------------------- C1

\* C1 (as claimed): in every dispatch, the first 401 is followed by exactly one
\* refreshAccessToken call and at most one further API request, a second 401
\* by nothing at all, and no dispatch sends more than two API requests.
C1_OneRefreshOneRetry ==
    \A p \in Dispatches :
        LET lg == task[p].log
            i == First(lg, "resp401")
            rest == After(lg, i)
            j == First(rest, "resp401")
        IN  /\ Count(lg, "api") <= 2
            /\ i > 0 => /\ Count(rest, "refresh") = 1
                        /\ Count(rest, "api") <= 1
                        /\ j > 0 => (j = Len(rest) /\ Done(p))

\* The part of C1 that the code keeps: at most two API requests per dispatch.
C1_AtMostTwoRequests == \A p \in Dispatches : Count(task[p].log, "api") <= 2

\* -------------------------------------------------------------------- C2

TwiceUnauthorized(p) == Done(p) /\ Count(task[p].log, "resp401") = 2

\* C2 (as claimed): a dispatch whose retried attempt also returned 401 fails
\* with an error of the Authentication kind.
C2_SecondUnauthorizedIsAuthentication ==
    \A p \in Dispatches :
        TwiceUnauthorized(p) =>
            /\ task[p].result.state = "threw"
            /\ ErrorKind(task[p].result.error) = "Authentication"

\* C2 (amended): a dispatch whose retried attempt also returned 401 fails with
\* the API error `Zoho API error (401): <detail>`, not with the Authentication
\* kind that a refused refresh raises.
C2_SecondUnauthorizedIsApiError ==
    \A p \in Dispatches :
        TwiceUnauthorized(p) =>
            /\ task[p].result.state = "threw"
            /\ ErrorKind(task[p].result.error) = "API"
            /\ task[p].result.error.message[2] = 401

C2_Witness ==
    \E p \in Dispatches : TwiceUnauthorized(p) /\ task[p].result.state = "threw"

\* -------------------------------------------------------------------- C3

\* C3 (as claimed): a dispatch invoked with a non-empty access token calls
\* refreshAccessToken never.
C3_NoRefreshWithToken ==
    \A p \in Dispatches : task[p].hadToken => Count(task[p].log, "refresh") = 0

\* C3 (amended): a dispatch invoked with a non-empty access token calls
\* refreshAccessToken only after an API attempt of its own has returned 401:
\* never before its first attempt, and never when no attempt returned 401.
C3_NoRefreshBeforeUnauthorized ==
    \A p \in Dispatches :
        task[p].hadToken =>
            LET lg == task[p].log
            IN  /\ \A i \in DOMAIN lg :
                      lg[i] = "refresh" => \E j \in 1..(i - 1) : lg[j] = "resp401"
                /\ lg # << >> => lg[1] = "api"

C3_Witness ==
    \E p \in Dispatches :
        /\ task[p].hadToken
        /\ Done(p)
        /\ task[p].result.state = "returned"
        /\ task[p].log = << "api", "resp" >>

\* -------------------------------------------------------------------- C4

\* C4: when a dispatch invoked with an empty access token sends its first API
\* request, it has called refreshAccessToken exactly once before, and that
\* call has sent its token request and completed.
C4_OneRefreshBeforeFirstAttempt ==
    \A p \in Dispatches :
        ~task[p].hadToken =>
            LET lg == task[p].log
                i == First(lg, "api")
            IN  /\ lg[1] = "refresh"
                /\ i > 0 => Before(lg, i) = << "refresh", "oauth", "granted" >>

C4_Witness ==
    \E p \in Dispatches :
        /\ ~task[p].hadToken
        /\ task[p].pc = "fetching"
        /\ task[p].log = << "refresh", "oauth", "granted", "api" >>

\* -------------------------------------------------------------------- C5

ConfigurationFailure(p) ==
    Done(p) /\ task[p].result = Threw(MissingCredentialsError)

\* C5 (as claimed): while a credential is empty no token request is sent, a
\* refreshAccessToken call fails with the Configuration error, and the
\* dispatch that made the call sends no API request.
C5_NoRequestWithoutCredentials ==
    MissingCredentials(config) =>
        \A p \in Tasks :
            /\ Count(task[p].log, "oauth") = 0
            /\ Count(task[p].log, "refresh") > 0 =>
                  /\ ConfigurationFailure(p)
                  /\ Count(task[p].log, "api") = 0

\* C5 (amended): while a credential is empty no token request is sent, a
\* refreshAccessToken call fails at once with the Configuration error, and the
\* dispatch that made the call sends no API request after it: none at all when
\* the call was made because the token was absent, only the first attempt
\* (the one answered 401) when it was made because of that 401.
C5_NoRequestAfterConfigurationError ==
    MissingCredentials(config) =>
        \A p \in Tasks :
            LET lg == task[p].log
            IN  /\ Count(lg, "oauth") = 0
                /\ Count(lg, "refresh") > 0 =>
                      /\ ConfigurationFailure(p)
                      /\ lg[Len(lg)] = "refresh"
                      /\ Count(lg, "refresh") = 1
                      /\ task[p].site \in {"pre", "direct"} => Count(lg, "api") = 0
                      /\ task[p].site = "401" => lg = << "api", "resp401", "refresh" >>

C5_Witness ==
    /\ MissingCredentials(config)
    /\ \E p \in Dispatches : ConfigurationFailure(p) /\ task[p].site = "pre"
    /\ \E p \in Tasks : ConfigurationFailure(p) /\ task[p].site = "direct"

\* -------------------------------------------------------------------- C6

\* A step in which the refreshAccessToken of p gets a JSON answer.
TokenAnswered(p) == task[p].pc = "refreshing" /\ task'[p].pc # "refreshing"

\* A step in which the refreshAccessToken of p writes the config and returns.
TokenGranted(p) == task[p].pc = "refreshing" /\ task'[p].pc = "refreshed"

RefreshRefused(p, e) ==
    /\ task'[p].pc = "done"
    /\ task'[p].result = Threw(TokenRefreshError(e))
    /\ ErrorKind(task'[p].result.error) = "Authentication"
    /\ config' = config

\* C6 (as claimed): whenever the token endpoint's answer has an `error` field,
\* refreshAccessToken throws the Authentication error carrying that string and
\* leaves the config as it was.
C6_ErrorFieldRefusesRefresh ==
    [][ \A p \in Tasks :
          (TokenAnswered(p) /\ task'[p].data.error # Absent)
              => RefreshRefused(p, task'[p].data.error) ]_vars

\* C6 (amended): whenever the token endpoint's answer has a non-empty `error`
\* field, refreshAccessToken throws the Authentication error carrying that
\* string and leaves the config (access token and API domain included) as it
\* was; an empty `error` is not taken for an error.
C6_NonEmptyErrorRefusesRefresh ==
    [][ \A p \in Tasks :
          (TokenAnswered(p) /\ Truthy(task'[p].data.error))
              => RefreshRefused(p, task'[p].data.error) ]_vars

C6_Witness ==
    \E p \in Tasks :
        /\ Done(p)
        /\ task[p].data.error = "invalid_code"
        /\ task[p].data.access_token = "tokB"
        /\ task[p].result = Threw(TokenRefreshError("invalid_code"))
        /\ config = startup

\* -------------------------------------------------------------------- C7

\* A step in which a refreshAccessToken called on its own returns to its caller.
RefreshReturns(p) ==
    task[p].pc = "refreshed" /\ task[p].site = "direct" /\ task'[p].pc = "done"

\* C7 (as claimed): a refreshAccessToken that succeeds stores the answer's
\* access token in the config and returns it, and stores the answer's API
\* domain exactly when the answer has one.
C7_DomainWrittenWhenPresent ==
    [][ \A p \in Tasks :
          /\ TokenGranted(p) =>
                /\ config'.accessToken = task'[p].data.access_token
                /\ config'.apiDomain = IF task'[p].data.api_domain # Absent
                                       THEN task'[p].data.api_domain
                                       ELSE config.apiDomain
          /\ RefreshReturns(p) =>
                task'[p].result = Returned(task[p].data.access_token) ]_vars

\* C7 (amended): a refreshAccessToken that succeeds stores the answer's access
\* token in the config and returns it, and stores the answer's API domain
\* exactly when the answer has a non-empty one; otherwise the API domain is
\* left as it was.
C7_DomainWrittenWhenNonEmpty ==
    [][ \A p \in Tasks :
          /\ TokenGranted(p) =>
                /\ config'.accessToken = task'[p].data.access_token
                /\ config'.apiDomain = IF Truthy(task'[p].data.api_domain)
                                       THEN task'[p].data.api_domain
                                       ELSE config.apiDomain
          /\ RefreshReturns(p) =>
                task'[p].result = Returned(task[p].data.access_token) ]_vars

C7_Witness ==
    /\ \E p \in Tasks :
          /\ task[p].op = "refresh"
          /\ Done(p)
          /\ task[p].data.api_domain = IN_API
          /\ task[p].result = Returned("tokA")
    /\ \E p \in Tasks :
          /\ task[p].pc = "refreshed"
          /\ task[p].data.api_domain = Absent
          /\ task[p].data.access_token = "tokB"
    /\ config.accessToken = "tokB"
    /\ config.apiDomain = IN_API

\* -------------------------------------------------------------------- C8

\* C8: the refresh token, the client id, the client secret and the accounts
\* domain keep their startup values for ever, and the config changes only in
\* a step in which a refreshAccessToken writes it.
C8_OnlyRefreshWritesTokenAndDomain ==
    /\ [](/\ config.refreshToken = startup.refreshToken
          /\ config.clientId = startup.clientId
          /\ config.clientSecret = startup.clientSecret
          /\ config.accountsDomain = startup.accountsDomain)
    /\ [][ config' # config => \E p \in Tasks : TokenGranted(p) ]_vars

C8_Witness ==
    /\ config.accessToken # startup.accessToken
    /\ config.apiDomain # startup.apiDomain
    /\ \E p \in Dispatches : Done(p) /\ Count(task[p].log, "granted") = 2
    /\ \E p \in Tasks : task[p].op = "refresh" /\ Done(p)

\* -------------------------------------------------------------------- C9

\* Two dispatches are both inside refreshAccessToken: each saw a 401 or an
\* absent token before the other's refresh completed.
Racing(p, q) ==
    /\ p # q
    /\ task[p].op = "dispatch" /\ task[p].pc = "refreshing"
    /\ task[q].op = "dispatch" /\ task[q].pc = "refreshing"

\* The token request of p is on the wire.
TokenRequestInFlight(p) ==
    task[p].log # << >> /\ task[p].log[Len(task[p].log)] = "oauth"

\* C9: two dispatches that are refreshing at the same time have each sent a
\* token request of their own, and every refresh that completes writes its own
\* token over the shared access token, so that the later write is the value
\* that stays.
C9_ConcurrentRefreshesBothWrite ==
    /\ [](\A p, q \in Tasks :
            Racing(p, q) =>
                /\ TokenRequestInFlight(p) /\ TokenRequestInFlight(q)
                /\ Cardinality({ r \in Tasks : TokenRequestInFlight(r) }) >= 2)
    /\ [][ \A p \in Tasks :
             TokenGranted(p) => config'.accessToken = task'[p].data.access_token ]_vars

C9_Witness ==
    \E p, q \in Dispatches :
        /\ p # q
        /\ ~task[p].hadToken /\ ~task[q].hadToken
        /\ task[p].log = << "refresh", "oauth", "granted" >>
        /\ task[q].log = << "refresh", "oauth", "granted" >>
        /\ task[p].data.access_token = "tokA"
        /\ task[q].data.access_token = "tokB"
        /\ config.accessToken = "tokB"

\* ------------------------------------------------------------------- C10

Succeeded(p) == Done(p) /\ task[p].result.state = "returned"

\* C10: with a remote that answers every call and accepts every issued token,
\* two dispatches that are refreshing at the same time both end with a result.
C10_RacingDispatchesBothSucceed ==
    \A p, q \in Tasks : Racing(p, q) ~> (Succeeded(p) /\ Succeeded(q))

C10_Witness ==
    \E p, q \in Dispatches :
        /\ p # q
        /\ ~task[p].hadToken /\ ~task[q].hadToken
        /\ Succeeded(p) /\ Succeeded(q)
        /\ Count(task[p].log, "oauth") = 1
        /\ Count(task[q].log, "oauth") = 1

\* ------------------------------------------------------------------- C11

FourKinds == { "Configuration", "Authentication", "API", "Network" }

\* C11 (as claimed): a dispatch that has ended has returned a result or thrown
\* one error, and the error is of one of the four kinds, whatever the token
\* endpoint and the API answered.
C11_EveryErrorIsOfTheFourKinds ==
    \A p \in Dispatches :
        Done(p) =>
            \/ task[p].result.state = "returned"
            \/ /\ task[p].result.state = "threw"
               /\ ErrorKind(task[p].result.error) \in FourKinds

\* ------------------------------------------------------------------- C12

\* How many API responses the dispatch of p has seen.
Responses(p) == Count(task[p].log, "resp") + Count(task[p].log, "resp401")

\* The last API response p has seen is a failure that is not a 401 to its
\* first attempt.
FinalFailure(p) ==
    /\ Responses(p) > 0
    /\ ~Ok(task[p].response.status)
    /\ ~(task[p].response.status = 401 /\ Responses(p) = 1)

\* C12: once a dispatch has seen a response whose status is not 2xx, a 401 to
\* its first attempt apart, it has failed with the API error of that status
\* and that response is the last event of the dispatch: no refresh call and
\* no further request follows it.
C12_FailureStatusEndsDispatch ==
    \A p \in Dispatches :
        FinalFailure(p) =>
            /\ Done(p)
            /\ task[p].result.state = "threw"
            /\ ErrorKind(task[p].result.error) = "API"
            /\ task[p].result.error.message[2] = task[p].response.status
            /\ task[p].log[Len(task[p].log)] \in {"resp", "resp401"}

C12_Witness ==
    \E p \in Dispatches :
        /\ task[p].response.status = 429
        /\ task[p].log = << "api", "resp" >>
        /\ task[p].result.state = "threw"

\* ------------------------------------------------------------------- C13

\* A step in which an HTTP call of p (its API request, or the token request
\* of its refreshAccessToken) fails to complete.
TransportFailure(p) ==
    \/ task'[p].log = Append(task[p].log, "api_failed")
    \/ task'[p].log = Append(task[p].log, "oauth_failed")

\* C13: when an HTTP call of a dispatch fails to complete, the dispatch ends
\* in that step with the error of the fetch, the config is not written, and
\* the failure stays the last event of the dispatch.
C13_TransportErrorPropagates ==
    /\ [][ \A p \in Dispatches :
             TransportFailure(p) =>
                 /\ task'[p].pc = "done"
                 /\ task'[p].result = Threw(FetchFailed)
                 /\ ErrorKind(task'[p].result.error) = "Network"
                 /\ config' = config ]_vars
    /\ [](\A p \in Dispatches :
             Count(task[p].log, "api_failed") + Count(task[p].log, "oauth_failed") > 0 =>
                 /\ Done(p)
                 /\ task[p].log[Len(task[p].log)] \in {"api_failed", "oauth_failed"})

C13_Witness ==
    /\ \E p \in Dispatches :
          task[p].log = << "api", "resp401", "refresh", "oauth", "oauth_failed" >>
    /\ \E p \in Dispatches :
          /\ task[p].log = << "refresh", "oauth", "granted", "api", "api_failed" >>
          /\ task[p].result = Threw(FetchFailed)
    /\ config.accessToken = "tokA"

\* ------------------------------------------------------------------- C14

\* {"code":"INVALID"} as JSON.stringify(..., null, 2) writes it.
InvalidCodeIndented ==
    Txt(<< "{", "\n", " ", " ", "\"",
          "c", "o", "d", "e", "\"", ":", " ", "\"", "I", "N", "V", "A", "L", "I", "D", "\"", "\n", "}" >>)

\* [ 1 , {"a" : [ ]} ] as JSON.stringify(..., null, 2) writes it.
SpacedIndented ==
    Txt(<< "[", "\n", " ", " ", "1", ",", "\n", " ", " ",
          "{", "\n", " ", " ", " ", " ", "\"", "a", "\"", ":", " ", "[", "]", "\n", " ", " ", "}", "\n", "]" >>)

\* The message of the error p has thrown is that of the API error for the
\* status st with the detail d.
ApiErrorMessage(p, st, d) ==
    task[p].result.error.message = << "Zoho API error (", st, "): ", d >>

\* C14: the error thrown for a failure response has the message
\* `Zoho API error (<status>): <detail>`; the detail is the body itself when
\* the body is not JSON, and otherwise a JSON text of the same value, indented
\* by two spaces: status 400 with {"code":"INVALID"} gives the object on three
\* lines, status 500 with boom gives `Zoho API error (500): boom`.
C14_ApiErrorMessage ==
    \A p \in Dispatches :
        (FinalFailure(p) /\ Done(p)) =>
            LET r == task[p].response
                m == task[p].result.error.message
            IN  /\ Len(m) = 4
                /\ m[1] = "Zoho API error (" /\ m[2] = r.status /\ m[3] = "): "
                /\ IF JSONparse(r.body).ok
                   THEN JSONparse(m[4]) = JSONparse(r.body)
                   ELSE m[4] = r.body
                /\ (r.status = 400 /\ r.body = InvalidCode)
                      => ApiErrorMessage(p, 400, InvalidCodeIndented)
                /\ (r.status = 500 /\ r.body = Boom) => ApiErrorMessage(p, 500, Boom)
                /\ r.body = Spaced => m[4] = SpacedIndented
                /\ r.body \in {NoBody, Blank} => m[4] = r.body

C14_Witness ==
    \E p \in Dispatches :
        /\ Done(p)
        /\ task[p].response = [status |-> 400, body |-> InvalidCode]
        /\ ApiErrorMessage(p, 400, InvalidCodeIndented)

\* ------------------------------------------------------------------- C15

\* The object with the one member k: the string v.
OneMember(k, v) == JObj(<< << k, JStr(v) >> >>)

\* The object with the two members k1: the string v1 and k2: the string v2.
TwoMembers(k1, v1, k2, v2) == JObj(<< << k1, JStr(v1) >>, << k2, JStr(v2) >> >>)

\* The last API response p has seen has the status 204.
Answered204(p) == Responses(p) > 0 /\ task[p].response.status = 204

\* C15: a dispatch whose request is answered with status 204 returns the
\* object {status: "success", message: "No content"}, whatever the body of the
\* response is: empty, text that is not JSON, or JSON.
C15_NoContentWhateverTheBody ==
    \A p \in Dispatches :
        Answered204(p) =>
            /\ Done(p)
            /\ task[p].result =
                  Returned(TwoMembers(Txt(<< "s", "t", "a", "t", "u", "s" >>), Txt(<< "s", "u", "c", "c", "e", "s", "s" >>),
                                      Txt(<< "m", "e", "s", "s", "a", "g", "e" >>),
                                      Txt(<< "N", "o", " ", "c", "o", "n", "t", "e", "n", "t" >>)))

C15_Witness ==
    \E p \in Dispatches :
        /\ Answered204(p)
        /\ task[p].response.body = Boom
        /\ task[p].result.state = "returned"
        /\ task[p].result.value.t = "object"

\* ------------------------------------------------------------------- C16

\* The last API response p has seen is a success other than 204.
AnsweredWithBody(p) ==
    /\ Responses(p) > 0
    /\ Ok(task[p].response.status)
    /\ task[p].response.status # 204

\* C16: a dispatch whose request is answered with a success status other than
\* 204 returns {status: "success"} when the body is empty, and the value that
\* the body denotes when the body is a JSON text: the object with the member
\* code for {"code":"INVALID"}, the array of 1 for [1], a string of 99,998
\* characters for that string between quotes.
C16_EmptyOrParsedBody ==
    \A p \in Dispatches :
        AnsweredWithBody(p) =>
            LET body == task[p].response.body
            IN  /\ Done(p)
                /\ body = NoBody =>
                      task[p].result = Returned(OneMember(Txt(<< "s", "t", "a", "t", "u", "s" >>), Txt(<< "s", "u", "c", "c", "e", "s", "s" >>)))
                /\ (body # NoBody /\ JSONparse(body).ok) =>
                      /\ task[p].result.state = "returned"
                      /\ Compact(task[p].result.value) = Compact(JSONparse(body).value)
                /\ body = InvalidCode =>
                      task[p].result = Returned(OneMember(Txt(<< "c", "o", "d", "e" >>), Txt(<< "I", "N", "V", "A", "L", "I", "D" >>)))
                /\ body = OneElement => task[p].result = Returned(JArr(<< JNum(1) >>))
                /\ body = Spaced =>
                      task[p].result =
                          Returned(JArr(<< JNum(1), JObj(<< << Rep("a", 1), JArr(<< >>) >> >>) >>))
                /\ body = AtLimit =>
                      task[p].result = Returned(JStr(Rep("a", CHARACTER_LIMIT - 2)))

C16_Witness ==
    \E p \in Dispatches :
        /\ task[p].response = [status |-> 201, body |-> InvalidCode]
        /\ task[p].result.state = "returned"
        /\ task[p].result.value.t = "object"
        /\ task[p].result.value.v[1][2] = JStr(Txt(<< "I", "N", "V", "A", "L", "I", "D" >>))

\* ------------------------------------------------------------------- C17

\* A step in which p sends the request of its retried attempt.
RetrySent(p) ==
    /\ task'[p].retried
    /\ task'[p].log = Append(task[p].log, "api")

\* C17: the request a dispatch sends after a 401 and a refresh goes to the API
\* domain and carries the access token that the config holds at that moment,
\* and asks for what the first request asked for: the same path and query
\* string, method, body and content type.
C17_RetryRebuiltFromConfig ==
    [][ \A p \in Dispatches :
          RetrySent(p) =>
              /\ DomainOf(task'[p].sent) = config.apiDomain
              /\ BearerOf(task'[p].sent) = config.accessToken
              /\ Asked(task'[p].sent) = task[p].first
              /\ Count(task[p].log, "api") = 1
              /\ Count(task[p].log, "granted") >= 1 ]_vars

C17_Witness ==
    \E p \in Dispatches :
        /\ task[p].retried
        /\ task[p].pc = "fetching"
        /\ task[p].hadToken
        /\ startup.apiDomain = EU_API
        /\ DomainOf(task[p].sent) = IN_API
        /\ BearerOf(task[p].sent) = "tokA"
        /\ task[p].sent.method = "POST"
        /\ "body" \in DOMAIN task[p].sent
        /\ task[p].sent.body = Compact(CreateUserBody)

\* ------------------------------------------------------------------- C18

\* {"users":[{"last_name":"Doe"}]}
CreateUserText ==
    Txt(<< "{", "\"", "u", "s", "e", "r", "s", "\"", ":",
          "[", "{", "\"", "l", "a", "s", "t", "_", "n", "a", "m", "e", "\"", ":", "\"",
          "D", "o", "e", "\"", "}", "]", "}" >>)

\* C18: every API request in flight has the header Authorization with the
\* scheme Zoho-oauthtoken; it has a body and the header Content-Type:
\* application/json exactly when the call was given a body, and the body is
\* then a JSON text of the value given: {} for the empty object.
C18_HeadersAndBody ==
    \A p \in Dispatches :
        task[p].pc = "fetching" =>
            LET req == task[p].sent
                given == task[p].args.body.t # "undefined"
            IN  /\ "Authorization" \in DOMAIN req.headers
                /\ req.headers.Authorization[1] = "Zoho-oauthtoken "
                /\ "body" \in DOMAIN req <=> given
                /\ "Content-Type" \in DOMAIN req.headers <=> given
                /\ given =>
                      /\ req.headers["Content-Type"] = "application/json"
                      /\ JSONparse(req.body) = Parsed(task[p].args.body, << >>)
                /\ (given /\ task[p].args.body.v = << >>) => req.body = Txt(<< "{", "}" >>)
                /\ (given /\ task[p].args.body = CreateUserBody) => req.body = CreateUserText

C18_Witness ==
    /\ \E p \in Dispatches :
          /\ task[p].pc = "fetching"
          /\ task[p].args.body.t = "object"
          /\ task[p].args.body.v = << >>
          /\ task[p].sent.body = Txt(<< "{", "}" >>)
          /\ task[p].sent.headers["Content-Type"] = "application/json"
          /\ task[p].sent.headers.Authorization = << "Zoho-oauthtoken ", "tok0" >>

\* ------------------------------------------------------------------- C19

\* The text of the reply the handler of p has returned.
ReplyText(p) == task[p].reply[1].content[1].text

\* C19: the handler of a dispatch returns a reply exactly when its
\* zohoRequest has ended, however it ended.  The reply has one content item,
\* of type text.  After a result it has no isError member; after an error it
\* has isError: true and its text is "Error: " followed by the message of the
\* error, and by nothing else.
C19_HandlerAlwaysReplies ==
    \A p \in Dispatches :
        /\ Done(p) <=> task[p].reply # << >>
        /\ Done(p) =>
              /\ Len(task[p].reply) = 1
              /\ Len(task[p].reply[1].content) = 1
              /\ task[p].reply[1].content[1].type = "text"
              /\ task[p].result.state \in {"returned", "threw"}
              /\ task[p].result.state = "returned" =>
                    /\ DOMAIN task[p].reply[1] = {"content"}
                    /\ ReplyText(p) # << >>
              /\ task[p].result.state = "threw" =>
                    /\ DOMAIN task[p].reply[1] = {"content", "isError"}
                    /\ task[p].reply[1].isError = TRUE
                    /\ ReplyText(p)[1] = "Error: "
                    /\ Tail(ReplyText(p)) = task[p].result.error.message

C19_Witness ==
    \E p \in Dispatches :
        /\ Done(p)
        /\ task[p].log = << "api", "resp401", "refresh", "oauth", "oauth_error" >>
        /\ task[p].reply[1].isError = TRUE
        /\ ReplyText(p) = << "Error: ", "Token refresh failed: ", "invalid_code" >>

\* ------------------------------------------------------------------- C20

RECURSIVE Drop(_, _)
\* text.substring(k)
Drop(s, k) ==
    IF s = << >> \/ k <= 0 THEN s
    ELSE IF s[1].n > k THEN << [c |-> s[1].c, n |-> s[1].n - k] >> \o Tail(s)
         ELSE Drop(Tail(s), k - s[1].n)

\* p has returned the value of a response.
Replied(p) == Done(p) /\ task[p].result.state = "returned"

\* C20: the text of a success reply is the indented JSON text of the value
\* when that text has CHARACTER_LIMIT characters or fewer, and otherwise its
\* first CHARACTER_LIMIT characters followed by the notice.  A text of exactly
\* 100,000 characters is returned whole; one of 100,001 characters, a string
\* or an array of one string, loses its last character and gets the notice.
C20_TruncatedAboveLimit ==
    \A p \in Dispatches :
        Replied(p) =>
            LET full == Pretty(task[p].result.value)
                text == ReplyText(p)
                body == task[p].response.body
            IN  /\ Length(full) <= CHARACTER_LIMIT => text = full
                /\ Length(full) > CHARACTER_LIMIT =>
                      /\ Length(text) = CHARACTER_LIMIT + Length(TruncationNotice)
                      /\ Take(text, CHARACTER_LIMIT) = Take(full, CHARACTER_LIMIT)
                      /\ Drop(text, CHARACTER_LIMIT) = TruncationNotice
                /\ (AnsweredWithBody(p) /\ body = AtLimit) =>
                      /\ Length(full) = 100000
                      /\ text = AtLimit
                /\ (AnsweredWithBody(p) /\ body = OverLimit) =>
                      /\ Length(full) = 100001
                      /\ text = Cat(Cat(Rep("\"", 1), Rep("a", 99999)), TruncationNotice)
                /\ (AnsweredWithBody(p) /\ body = Wrapped) =>
                      /\ Length(body) = 99997
                      /\ Length(full) = 100001
                      /\ Drop(text, 99998) = Cat(Txt(<< "\"", "\n" >>), TruncationNotice)

C20_Witness ==
    \E p \in Dispatches :
        /\ Replied(p)
        /\ task[p].response = [status |-> 200, body |-> OverLimit]
        /\ Length(ReplyText(p)) = 100068
        /\ Drop(ReplyText(p), 100000) = TruncationNotice

\* -------------------------------------------------------------------- C21

\* The display message of the failure value thrown in task p: the message of
\* an Error, and for the other values of FailureValues their string form,
\* written out.
Shown(p) ==
    LET e == task[p].result.error
    IN  CASE IsError(e) -> e.message
          [] ~IsError(e) /\ e.t = "string" -> << e.v >>
          [] ~IsError(e) /\ e.t = "number" ->
                IF e.v = 404 THEN << Txt(<< "4", "0", "4" >>) >> ELSE << Txt(<< "0" >>) >>
          [] ~IsError(e) /\ e.t = "undefined" ->
                << Txt(<< "u", "n", "d", "e", "f", "i", "n", "e", "d" >>) >>
          [] ~IsError(e) /\ e.t = "null" -> << Txt(<< "n", "u", "l", "l" >>) >>
          [] ~IsError(e) /\ e.t = "boolean" -> << Txt(<< "f", "a", "l", "s", "e" >>) >>
          [] ~IsError(e) /\ e.t = "array" ->
                IF e.v = << >> THEN << << >> >>
                ELSE << Txt(<< "1", ",", ",", "q", "u", "o", "t", "a" >>) >>
          [] OTHER ->
                << Txt(<< "[", "o", "b", "j", "e", "c", "t", " ", "O", "b", "j", "e", "c", "t", "]" >>) >>

\* C21: for every failure value, buildErrorResponse returns
\* {content: [{type: "text", text: "Error: " + m}], isError: true}, m being
\* the message of an Error and the string form of any other value.
C21_ErrorEnvelope ==
    \A p \in Tasks :
        task[p].result.state = "threw" =>
            task[p].reply =
                << [ content |-> << [type |-> "text", text |-> << "Error: " >> \o Shown(p)] >>,
                     isError |-> TRUE ] >>

\* An Error and a value that is not one have both been turned into envelopes.
C21_Witness ==
    /\ task[1].result.state = "threw" /\ IsError(task[1].result.error)
    /\ task[1].result.error.message[1] = "Zoho API error ("
    /\ task[2].result.state = "threw" /\ ~IsError(task[2].result.error)
    /\ task[2].result.error.t = "array" /\ task[2].result.error.v # << >>
    /\ task[2].reply # << >>

\* -------------------------------------------------------------------- C22

\* [ "aaa..." ], the array of Wrapped, as JSON.stringify(..., null, 2) writes
\* it, 100,001 characters, without its last character and with the notice.
WrappedCut ==
    << [c |-> "[", n |-> 1], [c |-> "\n", n |-> 1], [c |-> " ", n |-> 2],
       [c |-> "\"", n |-> 1], [c |-> "a", n |-> CHARACTER_LIMIT - 7], [c |-> "\"", n |-> 1],
       [c |-> "\n", n |-> 3] >>
    \o Tail(TruncationNotice)

\* p is zohoRequest("Leads", "GET"), was called with a token in the config
\* and has had the answer 200 with the body b to its first request.
LeadsAnswered(p, b) ==
    /\ task[p].args.path = << "Leads" >>
    /\ task[p].args.method = "GET"
    /\ task[p].hadToken
    /\ Count(task[p].log, "resp401") = 0
    /\ task[p].response = [status |-> 200, body |-> b]

\* The success envelope with the text t.
Envelope(t) == << [content |-> << [type |-> "text", text |-> t] >>] >>

\* C22 (as claimed): GET "Leads" with a token and a 200 response whose body
\* is a JSON array sends one API request and calls no refresh, returns the
\* array, and the reply is the envelope with the indented JSON of the array.
C22_ArrayInEnvelope ==
    \A p \in Dispatches :
        /\ LeadsAnswered(p, OneElement) =>
              /\ task[p].log = << "api", "resp" >>
              /\ task[p].result = Returned(JArr(<< JNum(1) >>))
              /\ task[p].reply = Envelope(Txt(<< "[", "\n", " ", " ", "1", "\n", "]" >>))
        /\ LeadsAnswered(p, Spaced) =>
              /\ task[p].log = << "api", "resp" >>
              /\ task[p].result =
                    Returned(JArr(<< JNum(1), JObj(<< << Rep("a", 1), JArr(<< >>) >> >>) >>))
              /\ task[p].reply = Envelope(SpacedIndented)
        /\ LeadsAnswered(p, Wrapped) =>
              /\ task[p].log = << "api", "resp" >>
              /\ task[p].result = Returned(JArr(<< JStr(Rep("a", CHARACTER_LIMIT - 7)) >>))
              /\ task[p].reply = Envelope(Pretty(JArr(<< JStr(Rep("a", CHARACTER_LIMIT - 7)) >>)))

\* C22 (amended): the same, the text of the envelope being the indented JSON
\* of the array when that has CHARACTER_LIMIT characters or fewer, and its
\* first CHARACTER_LIMIT characters followed by the notice when it is longer.
C22_ArrayInEnvelopeUpToLimit ==
    \A p \in Dispatches :
        /\ LeadsAnswered(p, OneElement) =>
              /\ task[p].log = << "api", "resp" >>
              /\ task[p].result = Returned(JArr(<< JNum(1) >>))
              /\ task[p].reply = Envelope(Txt(<< "[", "\n", " ", " ", "1", "\n", "]" >>))
        /\ LeadsAnswered(p, Spaced) =>
              /\ task[p].log = << "api", "resp" >>
              /\ task[p].result =
                    Returned(JArr(<< JNum(1), JObj(<< << Rep("a", 1), JArr(<< >>) >> >>) >>))
              /\ task[p].reply = Envelope(SpacedIndented)
        /\ LeadsAnswered(p, Wrapped) =>
              /\ task[p].log = << "api", "resp" >>
              /\ task[p].result = Returned(JArr(<< JStr(Rep("a", CHARACTER_LIMIT - 7)) >>))
              /\ task[p].reply = Envelope(WrappedCut)

\* GET "Leads" has been answered with the long array and has replied.
C22_Witness ==
    \E p \in Dispatches :
        /\ LeadsAnswered(p, Wrapped)
        /\ task[p].reply # << >>
        /\ Length(ReplyText(p)) = CHARACTER_LIMIT + 68

\* -------------------------------------------------------------------- C23

\* The fields a journal entry writes, with their values: those of the partial
\* for an update; for a token response without an error the access token,
\* and the API domain when the response has one.
Writes(e) ==
    CASE e.by = "update" -> e.fields
      [] e.by = "refresh" /\ Truthy(e.data.error) -> NoFields
      [] e.by = "refresh" /\ Falsy(e.data.error) /\ Truthy(e.data.api_domain) ->
            [f \in {"accessToken", "apiDomain"} |->
                IF f = "accessToken" THEN e.data.access_token ELSE e.data.api_domain]
      [] OTHER -> [f \in {"accessToken"} |-> e.data.access_token]

RECURSIVE LastWritten(_, _)
\* The value last written to field f in journal j, the value at module load
\* when there is none.
LastWritten(j, f) ==
    IF j = << >> THEN startup[f]
    ELSE IF f \in DOMAIN Writes(j[Len(j)]) THEN Writes(j[Len(j)])[f]
         ELSE LastWritten(SubSeq(j, 1, Len(j) - 1), f)

\* C23: updateConfig(partial) sets the fields of partial and leaves the
\* others as they were, and getConfig() returns, whatever updates and
\* refreshes came before, a config in which every field has the value last
\* written to it.
C23_StoreReflectsWrites ==
    [][ /\ Len(journal') > Len(journal) /\ journal'[Len(journal')].by = "update" =>
              LET partial == journal'[Len(journal')].fields
              IN  /\ DOMAIN config' = DOMAIN config
                  /\ \A f \in DOMAIN config :
                        config'[f] = IF f \in DOMAIN partial THEN partial[f] ELSE config[f]
        /\ \A p \in Tasks :
              task[p].pc = "idle" /\ task'[p].op = "get" =>
                  /\ task'[p].result.state = "returned"
                  /\ DOMAIN task'[p].result.value = DOMAIN startup
                  /\ \A f \in DOMAIN startup :
                        task'[p].result.value[f] = LastWritten(journal, f)
      ]_vars

\* getConfig() returns the token of a refresh that came after an update of
\* the token, and the domain of an update that came after that refresh.
C23_Witness ==
    /\ Len(journal) = 3
    /\ journal[1] = Updated(Partials[1])
    /\ journal[2] = Answer([error |-> Absent, access_token |-> "tokA", api_domain |-> IN_API])
    /\ journal[3] = Updated(Partials[2])
    /\ \E p \in Tasks :
          /\ task[p].op = "get"
          /\ task[p].result.value.accessToken = "tokA"
          /\ task[p].result.value.apiDomain = EU_API

\* -------------------------------------------------------------------- C24

\* A step in which task p builds and sends an API request.
Sends(p) == Count(task'[p].log, "api") > Count(task[p].log, "api")

\* C24: every API request carries the access token that `config` holds when
\* the request is built, whatever token the refreshAccessToken awaited just
\* before has returned to the caller.
C24_RequestCarriesStoredToken ==
    [][ \A p \in Tasks :
            Sends(p) =>
                /\ BearerOf(task'[p].sent) = config.accessToken
                /\ config' = config
      ]_vars

\* The retried request of p is out with a token that p's own
\* refreshAccessToken did not return: another caller's refresh wrote it.
C24_Witness ==
    \E p \in Dispatches :
        /\ task[p].pc = "fetching"
        /\ task[p].retried
        /\ Truthy(task[p].obtained)
        /\ Truthy(BearerOf(task[p].sent))
        /\ BearerOf(task[p].sent) # task[p].obtained
        /\ \E q \in Tasks \ {p} : Count(task[q].log, "granted") > 0

\* -------------------------------------------------------------------- C25

\* A step in which the refreshAccessToken of task p returns.
RefreshReturnsNow(p) == task[p].pc = "refreshing" /\ task'[p].pc = "refreshed"

\* C25 (as claimed): when refreshAccessToken returns without throwing,
\* config.accessToken is a non-empty string, whatever the token response
\* without an error holds.
C25_TokenAfterRefresh ==
    [][ \A p \in Tasks : RefreshReturnsNow(p) => Truthy(config'.accessToken) ]_vars

\* -------------------------------------------------------------------- C26

\* C26 (as claimed): a dispatch calls refreshAccessToken at most twice, once
\* at most before its first attempt and once at most after a 401.
C26_AtMostTwoRefreshes ==
    \A p \in Dispatches :
        /\ Count(task[p].log, "refresh") <= 2
        /\ Count(Before(task[p].log, First(task[p].log, "api")), "refresh") <= 1

\* What the code keeps of C26: never more than three refreshAccessToken calls.
C26_AtMostThreeRefreshes ==
    \A p \in Dispatches : Count(task[p].log, "refresh") <= 3

\* -------------------------------------------------------------------- C27

\* C27: when every HTTP call completes, every dispatch ends, with a result or
\* an error, whatever the remote answers and whatever the other callers do,
\* and no dispatch has more than two zohoRequest frames.
C27_EveryDispatchEnds ==
    /\ [](\A p \in Tasks : task[p].depth <= 2)
    /\ \A p \in Tasks : (task[p].pc # "idle") ~> (Done(p) /\ task[p].result.state # "pending")

\* A dispatch has ended in its second frame, after three refreshes, while
\* the other caller was under way.
C27_Witness ==
    \E p \in Dispatches :
        /\ Done(p)
        /\ task[p].depth = 2
        /\ Count(task[p].log, "refresh") = 3
        /\ \E q \in Dispatches \ {p} : Count(task[q].log, "api") > 0

\* -------------------------------------------------------------------- C28

\* The GET /sse requests whose response is open.
OpenConns == { c \in Conns : conn[c].state \in {"connecting", "connected", "failed"} }

\* C28: the sessions map holds the session ids of the SSE connections that
\* were opened and have not closed, each with the transport of its
\* connection, from the handling of GET /sse on, whether or not the server
\* is connected to the transport yet.
C28_SessionsAreOpenConnections ==
    /\ DOMAIN sessions = { conn[c].sessionId : c \in OpenConns }
    /\ \A c \in OpenConns : sessions[conn[c].sessionId] = c

\* One connection has closed, another waits for server.connect, and a
\* message is being handled.
C28_Witness ==
    /\ conn[1].state = "closed"
    /\ conn[2].state = "connecting"
    /\ DOMAIN sessions = { SessionId(2) }
    /\ \E m \in Posts : post[m].state = "handling"

\* -------------------------------------------------------------------- C29

\* A step in which POST /messages request m is routed.
RoutedNow(m) == post[m].state = "none" /\ post'[m].state # "none"

\* C29: a POST /messages is handed to a transport only when its sessionId is
\* in the sessions map, and then to the transport of that session; without a
\* sessionId it is answered 400, and with one that is not in the map
\* (unknown, or of a closed connection) 404, no transport being invoked.
C29_MessagesGoToTheirSession ==
    [][ \A m \in Posts :
            RoutedNow(m) =>
                LET sid == post'[m].sessionId
                IN  /\ Falsy(sid) =>
                          post'[m] = [state |-> "done", sessionId |-> sid, status |-> 400, transport |-> 0]
                    /\ (Truthy(sid) /\ sid \notin DOMAIN sessions) =>
                          post'[m] = [state |-> "done", sessionId |-> sid, status |-> 404, transport |-> 0]
                    /\ (Truthy(sid) /\ sid \in DOMAIN sessions) =>
                          /\ post'[m].state = "handling"
                          /\ post'[m].transport \in OpenConns
                          /\ conn[post'[m].transport].sessionId = sid
                    /\ post'[m].transport # 0 => sid \in DOMAIN sessions
      ]_vars

\* A message for a closed session was answered 404 and one for an open
\* session went to its transport.
C29_Witness ==
    /\ conn[1].state = "closed"
    /\ post[1] = [state |-> "done", sessionId |-> SessionId(1), status |-> 404, transport |-> 0]
    /\ conn[2].state = "connected"
    /\ post[2].sessionId = SessionId(2)
    /\ post[2].transport = 2

\* -------------------------------------------------------------------- C30

RECURSIVE SplitAt(_, _, _)
\* The parts of ts between the separators sep, acc being the part under way.
SplitAt(ts, sep, acc) ==
    IF ts = << >> THEN << acc >>
    ELSE IF ts[1] = sep THEN << acc >> \o SplitAt(Tail(ts), sep, << >>)
         ELSE SplitAt(Tail(ts), sep, Append(acc, ts[1]))

\* What comes after the first sep in ts, nothing when there is none.
AfterFirst(ts, sep) ==
    IF \E i \in DOMAIN ts : ts[i] = sep
    THEN SubSeq(ts, First(ts, sep) + 1, Len(ts))
    ELSE << >>

\* What comes before the first sep in ts, all of ts when there is none.
BeforeFirst(ts, sep) ==
    IF \E i \in DOMAIN ts : ts[i] = sep
    THEN SubSeq(ts, 1, First(ts, sep) - 1)
    ELSE ts

\* The query parameters a server reads from a URL: the query is what follows
\* the first ?, its parameters are separated by &, and the name of each is
\* what precedes its first =.
QueryParameters(url) ==
    LET pieces == SplitAt(AfterFirst(url, "?"), "&", << >>)
    IN  { << BeforeFirst(pieces[i], "=") , AfterFirst(pieces[i], "=") >> :
            i \in { k \in DOMAIN pieces : pieces[k] # << >> } }

\* p is the zohoRequest of zoho_get_fields for the module Leads with
\* type = unused, and has sent its first request.
FieldsOfTypeRequested(p) ==
    /\ task[p].args.path = << "settings/fields", "?", "module", "=", "Leads" >>
    /\ task[p].args.queryParams.params = << << "type", "unused" >> >>
    /\ task[p].first.url # << >>

\* C30 (as claimed): the URL of zoho_get_fields with a type has one query
\* component, and module and type are two parameters of it.
C30_OneQueryComponent ==
    \A p \in Dispatches :
        FieldsOfTypeRequested(p) =>
            /\ Count(task[p].first.url, "?") = 1
            /\ << << "module" >>, << "Leads" >> >> \in QueryParameters(task[p].first.url)
            /\ << << "type" >>, << "unused" >> >> \in QueryParameters(task[p].first.url)

\* What the code sends: settings/fields?module=Leads?type=unused, in which
\* the one parameter module has the value Leads?type=unused.
C30_TypeEndsUpInModule ==
    \A p \in Dispatches :
        FieldsOfTypeRequested(p) =>
            /\ task[p].first.url =
                  << "/crm/v7/", "settings/fields", "?", "module", "=", "Leads", "?", "type", "=", "unused" >>
            /\ QueryParameters(task[p].first.url) =
                  { << << "module" >>, << "Leads", "?", "type", "=", "unused" >> >> }

====
